---- MODULE Spec2Model ----
(***************************************************************************)
(* Verification model of the documentation toolkit:                        *)
(*   - utilities/auth_server.py          (Auth Token Issuance Service)     *)
(*   - utilities/generate_graphql_rst.py (GraphQL Documentation Generator) *)
(*   - utilities/generate_js_rst.py      (JavaScript Reference Generator)  *)
(*   - utilities/generate_openapi_spec.py    (OpenAPI Spec Generator v1)   *)
(*   - utilities/generate_openapi_spec_v2.py (OpenAPI Spec Generator v2)   *)
(* Python values are modelled as follows: a str is a TLA+ string, None is  *)
(* the sentinel None, a dict is the sequence of its <<key, value>> items   *)
(* in insertion order, a text file is the sequence of its lines.           *)
(***************************************************************************)
EXTENDS Integers, Sequences, FiniteSets, TLC

VARIABLES
    \* ---- Auth Token Issuance Service (auth_server.py) ----
    pc,            \* position of each request's handler coroutine
    req,           \* the TokenRequest body each running handler was called with
    ext,           \* what the cloud SDK answered to the running handler
    tok,           \* locals of the handler: auth header and (LAMBDA) the headers dict
    resp,          \* what the handler returned / the HTTP response
    steps,         \* regeneration steps the running handler has completed, in order
    graphql_rst,   \* ../docs/graphql.rst
    apidoc_rst,    \* ../docs/apidoc.rst
    index_rst,     \* ../docs/index.rst
    build_dir,     \* ../docs/_build
    \* ---- GraphQL Documentation Generator CLI (generate_graphql_rst.py) ----
    cli_pc,        \* position of the CLI run
    cli_args,      \* the arguments of the run
    cli_env,       \* what the run finds outside: ambient credentials, provider answers
    cli_headers,   \* the dict generate_headers returned
    cli_error,     \* the exception that ended the run, or None
    cli_docs_dir,  \* whether ../docs exists
    cli_graphql_rst, \* ../docs/graphql.rst as the CLI sees it
    cli_before,    \* ../docs/graphql.rst as it was when the run started
    \* ---- JavaScript Reference Generator (generate_js_rst.py) ----
    js_pc,         \* position of the run
    js_args,       \* the --id and --od values of the command line
    js_tree,       \* the input tree: path -> content of the file, or NoJsFile
    js_files,      \* the files glob found that the loop has not processed yet
    js_last,       \* the file the loop processed last
    js_out,        \* the output directory: module name -> page, or NoFile
    js_before,     \* the output directory as it was when the run started
    js_exit,       \* exit status of the process, once it has ended
    \* ---- OpenAPI Spec Generators (generate_openapi_spec.py, ..._v2.py) ----
    oa_pc,         \* position of the run
    oa_input,      \* which generator runs, with its command line or its manifest
    oa_fs,         \* the paths that are files
    oa_queue,      \* <<auth type, path>> of the files still to process
    oa_file,       \* the file being processed and what was detected in it
    oa_todo,       \* endpoints of that file not yet put into the document
    oa_last,       \* the endpoint put into the document last
    oa_spec,       \* spec["paths"] of the document under construction
    oa_opened,     \* the paths the run has opened for parsing, in order
    oa_out,        \* ../src/openapi_spec.json
    oa_before,     \* ../src/openapi_spec.json as it was when the run started
    oa_exit,       \* exit status of the process, once it has ended
    \* ---- The parsers of the generators, called on their own ----
    fn_pc,         \* "call" before the function runs, "return" after
    fn_call,       \* the function called and its argument
    fn_result      \* what the function returned

tokenVars == <<pc, req, ext, tok, resp, steps, graphql_rst, apidoc_rst, index_rst, build_dir>>
cliVars ==
    <<cli_pc, cli_args, cli_env, cli_headers, cli_error, cli_docs_dir, cli_graphql_rst,
      cli_before>>
jsVars == <<js_pc, js_args, js_tree, js_files, js_last, js_out, js_before, js_exit>>
oaVars ==
    <<oa_pc, oa_input, oa_fs, oa_queue, oa_file, oa_todo, oa_last, oa_spec, oa_opened,
      oa_out, oa_before, oa_exit>>
fnVars == <<fn_pc, fn_call, fn_result>>
vars == <<tokenVars, cliVars, jsVars, oaVars, fnVars>>

(***************************************************************************)
(* Bounds of the model.                                                    *)
(***************************************************************************)
NumReqs == 2

(***************************************************************************)
(* Python values.                                                          *)
(***************************************************************************)
None == "<None>"

\* Python truthiness of an Optional[str]: None and "" are falsy.
Truthy(v) == v # None /\ v # ""

\* all([...]) over a sequence of Optional[str] values.
All(vs) == \A i \in 1..Len(vs) : Truthy(vs[i])

EmptyDict == <<>>

DictKeys(d) == {d[i][1] : i \in 1..Len(d)}

DictHas(d, k) == k \in DictKeys(d)

DictGet(d, k, default) ==
    IF DictHas(d, k) THEN d[CHOOSE i \in 1..Len(d) : d[i][1] = k][2] ELSE default

\* d[k] = v : replaces the value in place when k is a key, appends otherwise.
DictSet(d, k, v) ==
    IF DictHas(d, k)
    THEN [i \in 1..Len(d) |-> IF d[i][1] = k THEN <<k, v>> ELSE d[i]]
    ELSE Append(d, <<k, v>>)

\* d.pop(k) for a key that is present: the dict without it.
DictPop(d, k) == SelectSeq(d, LAMBDA it : it[1] # k)

RECURSIVE DictUpdate(_, _)
\* d.update(other)
DictUpdate(d, other) ==
    IF other = <<>> THEN d
    ELSE DictUpdate(DictSet(d, Head(other)[1], Head(other)[2]), Tail(other))

\* json.dumps of a str or None (the strings of the model need no escaping).
JsonValue(v) == IF v = None THEN "null" ELSE "\"" \o v \o "\""

RECURSIVE JsonItems(_)
JsonItems(d) ==
    IF d = <<>> THEN ""
    ELSE "\"" \o Head(d)[1] \o "\": " \o JsonValue(Head(d)[2])
         \o (IF Tail(d) = <<>> THEN "" ELSE ", " \o JsonItems(Tail(d)))

\* json.dumps(headers) of a dict of str to (str or None), default separators.
JsonDumps(d) == "{" \o JsonItems(d) \o "}"

(***************************************************************************)
(* Auth Token Issuance Service: data (auth_server.py).                     *)
(***************************************************************************)
Reqs == 1..NumReqs

AuthTypes == {"IAM", "COGNITO", "API_KEY", "LAMBDA"}

\* Values a request gives an Optional[str] field.
StrOpt == {None, "v"}
RegionOpt == {None, "", "us-east-1"}
ApiKeyOpt == {None, "", "k1", "k2"}
\* lambda_payload: Optional[Dict]; a dict is written as its JSON text.
PayloadOpt == {None, "{}", "{\"user\": \"u\"}"}
\* The <<gql_endpoint, spec_endpoint>> pairs of the requests.
Endpoints ==
    {<<"https://g1/graphql", "https://s1/openapi.json">>,
     <<"https://g2/graphql", "https://s2/openapi.json">>}

\* Python truthiness of an Optional[Dict]: None and {} are falsy.
TruthyDict(p) == p # None /\ p # "{}"

\* class TokenRequest: every Optional field defaults to None.  session_token,
\* api_url and method only travel to the signer and the Lambda client.
TokenRequest(t, g, s) ==
    [auth_type |-> t, access_key |-> None, secret_key |-> None, username |-> None,
     password |-> None, api_key |-> None, client_id |-> None, region |-> None,
     lambda_payload |-> None, lambda_function_name |-> None,
     gql_endpoint |-> g, spec_endpoint |-> s]

NoReq == TokenRequest(None, None, None)

IamRequests ==
    {[TokenRequest("IAM", e[1], e[2]) EXCEPT !.access_key = a, !.secret_key = k, !.region = rg] :
        a \in StrOpt, k \in StrOpt, rg \in RegionOpt, e \in Endpoints}

CognitoRequests ==
    {[TokenRequest("COGNITO", e[1], e[2]) EXCEPT !.username = x[1], !.password = x[2],
                                           !.client_id = x[3], !.region = rg] :
        x \in StrOpt \X StrOpt \X StrOpt, rg \in RegionOpt,
        e \in Endpoints}

ApiKeyRequests ==
    {[TokenRequest("API_KEY", e[1], e[2]) EXCEPT !.api_key = k] :
        k \in ApiKeyOpt, e \in Endpoints}

LambdaRequests ==
    {[TokenRequest("LAMBDA", e[1], e[2]) EXCEPT !.lambda_function_name = f,
                                          !.lambda_payload = p, !.region = rg] :
        f \in StrOpt, p \in PayloadOpt, rg \in RegionOpt,
        e \in Endpoints}

\* The bodies that pass the declarative validation of TokenRequest.
TokenRequests == IamRequests \cup CognitoRequests \cup ApiKeyRequests \cup LambdaRequests

\* class TokenResponse, together with the HTTP status and the error detail.
\* additional_headers is Optional: <<>> is None, <<d>> is the dict d.
TokenResponse(h, t, extra) ==
    [status |-> 200, detail |-> None, authorization_header |-> h, token_type |-> t,
     additional_headers |-> extra]

ErrorResponse(code, detail) ==
    [status |-> code, detail |-> detail, authorization_header |-> None,
     token_type |-> None, additional_headers |-> <<>>]

NoResp == ErrorResponse(0, None)

NoTok == [auth_header |-> None, token_type |-> None, headers |-> EmptyDict]

\* Exceptions: fastapi.HTTPException(status_code, detail), or any other Exception.
HTTPException(code, detail) == [cls |-> "HTTPException", status_code |-> code, detail |-> detail]
OtherException(msg) == [cls |-> "Exception", status_code |-> 0, detail |-> msg]

\* str(e): an HTTPException prints as "<status_code>: <detail>".
StrExc(e) ==
    IF e.cls = "HTTPException" THEN ToString(e.status_code) \o ": " \o e.detail ELSE e.detail

\* How a branch ends before create_graphql_rst: `called` tells whether the
\* branch got as far as calling the cloud SDK.
Invalid(e) == [raised |-> TRUE, called |-> FALSE, exc |-> e, tok |-> NoTok]
Raised(e) == [raised |-> TRUE, called |-> TRUE, exc |-> e, tok |-> NoTok]
Returned(t) == [raised |-> FALSE, called |-> TRUE, exc |-> OtherException(""), tok |-> t]

(***************************************************************************)
(* What the cloud SDK answers: the signer, the identity provider and the   *)
(* Lambda authorizer are outside the program, so their answers are inputs. *)
(***************************************************************************)
\* An answer: ok is FALSE when the call raised; value is the signature, the
\* IdToken or the exception's text; the other fields are the Lambda payload.
Answer(ok, value) ==
    [ok |-> ok, value |-> value, has_status |-> FALSE, statusCode |-> 0, body |-> None,
     context_kind |-> "absent", context |-> <<>>]

NoAnswer == Answer(TRUE, None)

\* generate_sigv4_auth_header: request.headers['Authorization'], or an exception.
SignerAnswers ==
    {Answer(TRUE, "AWS4-HMAC-SHA256 Credential=v, Signature=ab12"),
     Answer(FALSE, "signer failed")}

\* client.initiate_auth: response['AuthenticationResult']['IdToken'], or an exception.
CognitoAnswers ==
    {Answer(TRUE, "jwt1"),
     Answer(FALSE, "NotAuthorizedException")}

\* A JSON value of the authorizer's context: its kind and its Python str().
JsonStr(s) == [kind |-> "str", repr |-> s]
JsonInt(s) == [kind |-> "int", repr |-> s]
JsonNull == [kind |-> "null", repr |-> "None"]

\* str(value)
PyStr(v) == v.repr

\* The Python value itself, for the kinds an authorization token takes here.
PyValue(v) == IF v.kind = "null" THEN None ELSE v.repr

AuthorizationToken == "authorizationToken"

\* Contexts that are mappings; the token, when present, is a str or null.
LambdaContexts ==
    {<<>>,
     <<<<AuthorizationToken, JsonStr("T")>>>>,
     <<<<AuthorizationToken, JsonStr("")>>>>,
     <<<<AuthorizationToken, JsonStr("T")>>, <<"role", JsonStr("admin")>>>>,
     <<<<"role", JsonStr("admin")>>, <<AuthorizationToken, JsonStr("T")>>>>,
     <<<<"role", JsonStr("admin")>>, <<"ttl", JsonInt("300")>>>>,
     <<<<AuthorizationToken, JsonNull>>, <<"role", JsonStr("admin")>>>>,
     <<<<AuthorizationToken, JsonStr("T")>>, <<"role", JsonNull>>, <<"ttl", JsonInt("300")>>>>}

\* lambda_client.invoke + json.loads: an exception, or the response payload
\* (statusCode present or not, context absent, a mapping, or another JSON value).
LambdaAnswers ==
    {Answer(FALSE, "invoke failed")}
    \cup
    {[Answer(TRUE, None) EXCEPT !.has_status = TRUE, !.statusCode = 403, !.body = b] :
        b \in {None, "denied"}}
    \cup
    {[Answer(TRUE, None) EXCEPT !.has_status = hs, !.statusCode = IF hs THEN 200 ELSE 0,
                               !.context_kind = "mapping", !.context = c] :
        hs \in BOOLEAN, c \in LambdaContexts}
    \cup
    {[Answer(TRUE, None) EXCEPT !.context_kind = k] : k \in {"absent", "other"}}

(***************************************************************************)
(* get_cognito_token and get_lambda_token.                                 *)
(***************************************************************************)
\* get_cognito_token: the IdToken, or HTTPException(401) for any exception.
get_cognito_token(answer) ==
    IF answer.ok
    THEN [raised |-> FALSE, exc |-> OtherException(""), value |-> answer.value]
    ELSE [raised |-> TRUE, exc |-> HTTPException(401, answer.value), value |-> None]

RECURSIVE LambdaCustomHeaders_NoStr(_, _)
LambdaCustomHeaders_NoStr(headers, items) ==
    IF items = <<>> THEN headers
    ELSE LET key == Head(items)[1]
             value == Head(items)[2]
         IN LambdaCustomHeaders_NoStr(
                IF key # AuthorizationToken
                THEN DictSet(headers, "X-Lambda-" \o key, PyValue(value))
                ELSE headers,
                Tail(items))

RECURSIVE LambdaCustomHeaders(_, _)
\* for key, value in context.items(): if key != 'authorizationToken': ...
LambdaCustomHeaders(headers, items) ==
    IF items = <<>> THEN headers
    ELSE LET key == Head(items)[1]
             value == Head(items)[2]
         IN LambdaCustomHeaders(
                IF key # AuthorizationToken
                THEN DictSet(headers, "X-Lambda-" \o key, PyStr(value))
                ELSE headers,
                Tail(items))

\* What the try block of get_lambda_token does: raises or returns headers.
LambdaTryBlock(answer) ==
    IF ~answer.ok
    THEN [raised |-> TRUE, exc |-> OtherException(answer.value), value |-> EmptyDict]
    ELSE IF (IF answer.has_status THEN answer.statusCode ELSE 200) # 200
    THEN [raised |-> TRUE,
          exc |-> HTTPException(401, "Lambda authorizer denied access: "
                     \o (IF answer.body = None THEN "No details provided" ELSE answer.body)),
          value |-> EmptyDict]
    ELSE IF answer.context_kind = "other"
    THEN [raised |-> TRUE, exc |-> OtherException("object has no attribute 'get'"),
          value |-> EmptyDict]
    ELSE LET context == answer.context
             headers == <<<<"Authorization",
                            PyValue(DictGet(context, AuthorizationToken, JsonStr("")))>>>>
         IN [raised |-> FALSE, exc |-> OtherException(""),
             value |-> LambdaCustomHeaders(headers, context)]

\* get_lambda_token: `except Exception` around the whole body turns every
\* exception, the HTTPException(401) of the body included, into HTTPException(500).
get_lambda_token(answer) ==
    LET t == LambdaTryBlock(answer)
    IN IF t.raised
       THEN [t EXCEPT !.exc = HTTPException(500, "Lambda authorization failed: " \o StrExc(t.exc))]
       ELSE t

(***************************************************************************)
(* get_token: validation and token acquisition of each auth_type branch,   *)
(* up to the call of create_graphql_rst.                                   *)
(***************************************************************************)
IamBranch(q, answer) ==
    IF ~All(<<q.access_key, q.secret_key, q.region>>)
    THEN Invalid(HTTPException(400,
             "access_key, secret_key, and region are required for IAM authentication"))
    ELSE IF ~answer.ok
    THEN Raised(OtherException(answer.value))
    ELSE Returned([auth_header |-> answer.value, token_type |-> "AWS_IAM_SIGV4",
                   headers |-> EmptyDict])

CognitoBranch(q, answer) ==
    IF ~All(<<q.username, q.password, q.client_id, q.region>>)
    THEN Invalid(HTTPException(400,
             "username, password, client_id, and region are required for Cognito authentication"))
    ELSE LET token == get_cognito_token(answer)
         IN IF token.raised
            THEN Raised(token.exc)
            ELSE Returned([auth_header |-> "Bearer " \o token.value,
                           token_type |-> "COGNITO_JWT", headers |-> EmptyDict])

ApiKeyBranch_Bearer(q) ==
    IF ~Truthy(q.api_key)
    THEN Invalid(HTTPException(400, "api_key is required for API_KEY authentication"))
    ELSE [Returned([auth_header |-> "Bearer " \o q.api_key, token_type |-> "API_KEY",
                    headers |-> EmptyDict]) EXCEPT !.called = FALSE]

ApiKeyBranch(q) ==
    IF ~Truthy(q.api_key)
    THEN Invalid(HTTPException(400, "api_key is required for API_KEY authentication"))
    ELSE [Returned([auth_header |-> q.api_key, token_type |-> "API_KEY",
                    headers |-> EmptyDict]) EXCEPT !.called = FALSE]

LambdaBranch(q, answer) ==
    IF ~(All(<<q.lambda_function_name, q.region>>) /\ TruthyDict(q.lambda_payload))
    THEN Invalid(HTTPException(400,
             "lambda_function_name, lambda_payload, and region are required for Lambda authentication"))
    ELSE LET headers == get_lambda_token(answer)
         IN IF headers.raised
            THEN Raised(headers.exc)
            ELSE Returned([auth_header |-> DictGet(headers.value, "Authorization", None),
                           token_type |-> "LAMBDA_CUSTOM", headers |-> headers.value])

\* The answers the branch of request q can get from outside.
AnswersFor(q) ==
    CASE q.auth_type = "IAM" -> SignerAnswers
      [] q.auth_type = "COGNITO" -> CognitoAnswers
      [] q.auth_type = "LAMBDA" -> LambdaAnswers
      [] OTHER -> {NoAnswer}

Branch(q, answer) ==
    CASE q.auth_type = "IAM" -> IamBranch(q, answer)
      [] q.auth_type = "COGNITO" -> CognitoBranch(q, answer)
      [] q.auth_type = "API_KEY" -> ApiKeyBranch(q)
      [] q.auth_type = "LAMBDA" -> LambdaBranch(q, answer)
      [] OTHER -> Invalid(HTTPException(400, "Unsupported auth_type: " \o q.auth_type))

\* `except Exception as e: raise HTTPException(status_code=500, detail=str(e))`
\* around the whole dispatch: HTTPException is an Exception, so the 400 and 401
\* raised inside the try block are caught here as well.
CatchAll(e) == ErrorResponse(500, StrExc(e))

(***************************************************************************)
(* create_graphql_rst and generate_rst_files.                              *)
(***************************************************************************)
Lower_Identity(t) == t

\* str.lower(), for the texts of the model that have upper-case letters.
Lower(t) ==
    CASE t = "API_KEY" -> "api_key"
      [] t = "IAM" -> "iam"
      [] t = "COGNITO" -> "cognito"
      [] t = "LAMBDA" -> "lambda"
      [] t \in {"GET", "Get"} -> "get"
      [] t \in {"POST", "Post"} -> "post"
      [] t = "PUT" -> "put"
      [] t = "DELETE" -> "delete"
      [] t = "Endpoint" -> "endpoint"
      [] t = "Method" -> "method"
      [] t \in {"Summary", "SUMMARY"} -> "summary"
      [] t = "Description" -> "description"
      [] t = "Parameters" -> "parameters"
      [] t = "Request" -> "request"
      [] t = "Response" -> "response"
      [] t = "Errors" -> "errors"
      [] t = "Error" -> "error"
      [] t = "Security" -> "security"
      [] t = "FastAPI" -> "fastapi"
      [] t = "Flask" -> "flask"
      [] OTHER -> t

\* The headers dict create_graphql_rst hands to generate_rst_files.
RstHeaders(q, auth_header) ==
    IF Lower(q.auth_type) = "api_key"
    THEN DictUpdate(EmptyDict, <<<<"x-api-key", auth_header>>>>)
    ELSE DictUpdate(EmptyDict, <<<<"Authorization", auth_header>>>>)

GraphqlRst(gql_endpoint, headers) ==
    <<"GraphQL API Documentation",
      "==========================",
      "",
      ".. code-block:: json",
      "",
      "   " \o JsonDumps(headers),
      "",
      ".. graphiql::",
      "   :endpoint: " \o gql_endpoint,
      "   :headers: " \o JsonDumps(headers)>>

ApidocRst(spec_endpoint, headers) ==
    <<"REST API Documentation",
      "======================",
      "",
      ".. code-block:: json",
      "",
      "   " \o JsonDumps(headers),
      "",
      ".. rapidoc::",
      "   :spec-url: " \o spec_endpoint,
      "   :theme: light",
      "   :render-style: view">>

IndexRst ==
    <<"Auto API Documentation",
      "======================",
      "",
      ".. toctree::",
      "   :maxdepth: 2",
      "   :caption: Contents:",
      "",
      "   auth",
      "   apidoc",
      "   graphql">>

\* What the files and the build directory hold before the service's first rebuild.
PriorFile == <<"(earlier content)">>
NoBuild == [state |-> "absent", graphql |-> <<>>, apidoc |-> <<>>, index |-> <<>>]
\* sphinx-build reads the pages as they are when it runs.
Built(g, a, i) == [state |-> "html", graphql |-> g, apidoc |-> a, index |-> i]
\* sphinx-build ended with a non-zero exit status (subprocess.run does not check it).
FailedBuild == [state |-> "failed", graphql |-> <<>>, apidoc |-> <<>>, index |-> <<>>]

(***************************************************************************)
(* The service as a state machine.  get_token is `async def` and holds no  *)
(* await: once the event loop of uvicorn.run(app) enters a handler it runs *)
(* it to its return before it enters another one.  The pages under ../docs *)
(* are writable; the documentation-site builder may be missing or fail.    *)
(***************************************************************************)
InHandler ==
    {"write_graphql", "write_apidoc", "write_index", "rm_build", "sphinx_build",
     "return", "responded"}

\* The event loop is not inside a handler.
LoopFree_Threaded == TRUE
LoopFree == \A o \in Reqs : pc[o] \notin InHandler

TokenInit ==
    /\ pc = [r \in Reqs |-> "idle"]
    /\ req = [r \in Reqs |-> NoReq]
    /\ ext = [r \in Reqs |-> NoAnswer]
    /\ tok = [r \in Reqs |-> NoTok]
    /\ resp = [r \in Reqs |-> NoResp]
    /\ steps = [r \in Reqs |-> <<>>]
    /\ graphql_rst = PriorFile
    /\ apidoc_rst = PriorFile
    /\ index_rst = PriorFile
    /\ build_dir \in {NoBuild, Built(PriorFile, PriorFile, PriorFile)}

\* A client sends POST /getToken; the connection waits for the event loop.
Arrive(r) ==
    /\ pc[r] = "idle"
    /\ pc' = [pc EXCEPT ![r] = "pending"]
    /\ UNCHANGED <<req, ext, tok, resp, steps, graphql_rst, apidoc_rst, index_rst, build_dir>>
    /\ UNCHANGED <<cliVars, jsVars, oaVars, fnVars>>

\* The handler ends with an exception caught by the catch-all of get_token.
Fail(r, e) ==
    /\ resp' = [resp EXCEPT ![r] = CatchAll(e)]
    /\ pc' = [pc EXCEPT ![r] = "responded"]

Begin_CreateFirst(r) ==
    /\ pc[r] = "pending"
    /\ LoopFree
    /\ \E q \in TokenRequests : \E answer \in AnswersFor(q) :
          LET b == Branch(q, answer)
          IN /\ req' = [req EXCEPT ![r] = q]
             /\ ext' = [ext EXCEPT ![r] = IF b.called THEN answer ELSE NoAnswer]
             /\ IF b.raised
                THEN /\ Fail(r, b.exc)
                     /\ graphql_rst' = GraphqlRst(q.gql_endpoint, RstHeaders(q, None))
                     /\ steps' = [steps EXCEPT ![r] = Append(@, "graphql.rst")]
                     /\ UNCHANGED tok
                ELSE /\ tok' = [tok EXCEPT ![r] = b.tok]
                     /\ pc' = [pc EXCEPT ![r] = "write_graphql"]
                     /\ UNCHANGED <<resp, steps, graphql_rst>>
    /\ UNCHANGED <<apidoc_rst, index_rst, build_dir>>
    /\ UNCHANGED <<cliVars, jsVars, oaVars, fnVars>>

\* The event loop calls get_token(request) with a validated body; the handler
\* runs the branch of request.auth_type up to the call of create_graphql_rst.
Begin(r) ==
    /\ pc[r] = "pending"
    /\ LoopFree
    /\ \E q \in TokenRequests : \E answer \in AnswersFor(q) :
          LET b == Branch(q, answer)
          IN /\ req' = [req EXCEPT ![r] = q]
             /\ ext' = [ext EXCEPT ![r] = IF b.called THEN answer ELSE NoAnswer]
             /\ IF b.raised
                THEN Fail(r, b.exc) /\ UNCHANGED tok
                ELSE /\ tok' = [tok EXCEPT ![r] = b.tok]
                     /\ pc' = [pc EXCEPT ![r] = "write_graphql"]
                     /\ UNCHANGED resp
    /\ UNCHANGED <<steps, graphql_rst, apidoc_rst, index_rst, build_dir>>
    /\ UNCHANGED <<cliVars, jsVars, oaVars, fnVars>>

\* generate_rst_files: with open("../docs/graphql.rst", "w") ...
WriteGraphql(r) ==
    /\ pc[r] = "write_graphql"
    /\ graphql_rst' = GraphqlRst(req[r].gql_endpoint, RstHeaders(req[r], tok[r].auth_header))
    /\ steps' = [steps EXCEPT ![r] = Append(@, "graphql.rst")]
    /\ pc' = [pc EXCEPT ![r] = "write_apidoc"]
    /\ UNCHANGED <<req, ext, tok, resp, apidoc_rst, index_rst, build_dir>>
    /\ UNCHANGED <<cliVars, jsVars, oaVars, fnVars>>

\* generate_rst_files: with open("../docs/apidoc.rst", "w") ...
WriteApidoc(r) ==
    /\ pc[r] = "write_apidoc"
    /\ apidoc_rst' = ApidocRst(req[r].spec_endpoint, RstHeaders(req[r], tok[r].auth_header))
    /\ steps' = [steps EXCEPT ![r] = Append(@, "apidoc.rst")]
    /\ pc' = [pc EXCEPT ![r] = "write_index"]
    /\ UNCHANGED <<req, ext, tok, resp, graphql_rst, index_rst, build_dir>>
    /\ UNCHANGED <<cliVars, jsVars, oaVars, fnVars>>

\* generate_rst_files: with open("../docs/index.rst", "w") ...
WriteIndex(r) ==
    /\ pc[r] = "write_index"
    /\ index_rst' = IndexRst
    /\ steps' = [steps EXCEPT ![r] = Append(@, "index.rst")]
    /\ pc' = [pc EXCEPT ![r] = "rm_build"]
    /\ UNCHANGED <<req, ext, tok, resp, graphql_rst, apidoc_rst, build_dir>>
    /\ UNCHANGED <<cliVars, jsVars, oaVars, fnVars>>

\* subprocess.run(["rm", "-rf", "../docs/_build"])
RmBuild(r) ==
    /\ pc[r] = "rm_build"
    /\ build_dir' = NoBuild
    /\ steps' = [steps EXCEPT ![r] = Append(@, "rm _build")]
    /\ pc' = [pc EXCEPT ![r] = "sphinx_build"]
    /\ UNCHANGED <<req, ext, tok, resp, graphql_rst, apidoc_rst, index_rst>>
    /\ UNCHANGED <<cliVars, jsVars, oaVars, fnVars>>

SphinxBuild_Popen(r) ==
    /\ pc[r] = "sphinx_build"
    /\ pc' = [pc EXCEPT ![r] = "return"]
    /\ UNCHANGED <<req, ext, tok, resp, steps, graphql_rst, apidoc_rst, index_rst, build_dir>>
    /\ UNCHANGED <<cliVars, jsVars, oaVars, fnVars>>

\* subprocess.run(["sphinx-build", ...]): blocks until the builder has ended;
\* a non-zero exit status is not checked, a builder that cannot be started raises.
SphinxBuild(r) ==
    /\ pc[r] = "sphinx_build"
    /\ \E outcome \in {"built", "exit_nonzero", "not_started"} :
          IF outcome = "not_started"
          THEN /\ Fail(r, OtherException("[Errno 2] No such file or directory: 'sphinx-build'"))
               /\ UNCHANGED <<build_dir, steps>>
          ELSE /\ build_dir' = IF outcome = "built"
                               THEN Built(graphql_rst, apidoc_rst, index_rst)
                               ELSE FailedBuild
               /\ steps' = [steps EXCEPT ![r] = Append(@, "sphinx-build")]
               /\ pc' = [pc EXCEPT ![r] = "return"]
               /\ UNCHANGED resp
    /\ UNCHANGED <<req, ext, tok, graphql_rst, apidoc_rst, index_rst>>
    /\ UNCHANGED <<cliVars, jsVars, oaVars, fnVars>>

\* return TokenResponse(...): authorization_header is declared str, so a None
\* there fails the model's validation, which the catch-all reports.
ReturnResponse(t) ==
    LET header == IF t.token_type = "LAMBDA_CUSTOM"
                  THEN DictGet(t.headers, "Authorization", None)
                  ELSE t.auth_header
        extra == IF t.token_type = "LAMBDA_CUSTOM"
                 THEN <<DictPop(t.headers, "Authorization")>>
                 ELSE <<>>
    IN IF header = None
       THEN CatchAll(OtherException("1 validation error for TokenResponse"))
       ELSE TokenResponse(header, t.token_type, extra)

Return(r) ==
    /\ pc[r] = "return"
    /\ resp' = [resp EXCEPT ![r] = ReturnResponse(tok[r])]
    /\ pc' = [pc EXCEPT ![r] = "responded"]
    /\ UNCHANGED <<req, ext, tok, steps, graphql_rst, apidoc_rst, index_rst, build_dir>>
    /\ UNCHANGED <<cliVars, jsVars, oaVars, fnVars>>

\* The coroutine has ended and the response is sent; the loop is free again.
Close(r) ==
    /\ pc[r] = "responded"
    /\ pc' = [pc EXCEPT ![r] = "idle"]
    /\ req' = [req EXCEPT ![r] = NoReq]
    /\ ext' = [ext EXCEPT ![r] = NoAnswer]
    /\ tok' = [tok EXCEPT ![r] = NoTok]
    /\ resp' = [resp EXCEPT ![r] = NoResp]
    /\ steps' = [steps EXCEPT ![r] = <<>>]
    /\ UNCHANGED <<graphql_rst, apidoc_rst, index_rst, build_dir>>
    /\ UNCHANGED <<cliVars, jsVars, oaVars, fnVars>>

TokenNext ==
    \E r \in Reqs :
        \/ Arrive(r)
        \/ Begin(r)
        \/ WriteGraphql(r)
        \/ WriteApidoc(r)
        \/ WriteIndex(r)
        \/ RmBuild(r)
        \/ SphinxBuild(r)
        \/ Return(r)
        \/ Close(r)

CliIdle ==
    /\ cli_pc = "off"
    /\ cli_args = None
    /\ cli_env = None
    /\ cli_headers = EmptyDict
    /\ cli_error = None
    /\ cli_docs_dir = FALSE
    /\ cli_graphql_rst = <<>>
    /\ cli_before = <<>>

JsIdle ==
    /\ js_pc = "off"
    /\ js_args = None
    /\ js_tree = <<>>
    /\ js_files = {}
    /\ js_last = None
    /\ js_out = <<>>
    /\ js_before = <<>>
    /\ js_exit = 0

OaIdle ==
    /\ oa_pc = "off"
    /\ oa_input = None
    /\ oa_fs = {}
    /\ oa_queue = <<>>
    /\ oa_file = None
    /\ oa_todo = <<>>
    /\ oa_last = None
    /\ oa_spec = EmptyDict
    /\ oa_opened = <<>>
    /\ oa_out = <<>>
    /\ oa_before = <<>>
    /\ oa_exit = 0

FnIdle ==
    /\ fn_pc = "off"
    /\ fn_call = None
    /\ fn_result = None

\* The service runs; the command-line tools are not started.
InitToken == TokenInit /\ CliIdle /\ JsIdle /\ OaIdle /\ FnIdle

SpecToken == InitToken /\ [][TokenNext]_vars

(***************************************************************************)
(* Claims about the Auth Token Issuance Service.                           *)
(***************************************************************************)
\* The fields each scheme requires, as the service's contract lists them.
RequiredFields(t) ==
    CASE t = "IAM" -> {"access_key", "secret_key", "region"}
      [] t = "COGNITO" -> {"username", "password", "client_id", "region"}
      [] t = "API_KEY" -> {"api_key"}
      [] t = "LAMBDA" -> {"lambda_function_name", "lambda_payload", "region"}
      [] OTHER -> {}

LacksRequiredField(q) == \E f \in RequiredFields(q.auth_type) : q[f] = None

Responded(r) == pc[r] = "responded"

\* C1: a request that lacks a field its auth_type requires is answered with
\* HTTP status 400.
C1_MissingFieldIs400 ==
    \A r \in Reqs :
        (Responded(r) /\ LacksRequiredField(req[r])) => resp[r].status = 400

\* The provider rejected the Cognito credentials, or the Lambda authorizer
\* answered with a statusCode other than 200, for a request with every field.
Rejected(r) ==
    \/ req[r].auth_type = "COGNITO" /\ ~ext[r].ok
    \/ /\ req[r].auth_type = "LAMBDA"
       /\ ext[r].ok /\ ext[r].has_status /\ ext[r].statusCode # 200

\* C2: rejected Cognito credentials and a Lambda authorizer answering with a
\* statusCode other than 200 are reported with HTTP status 401.
C2_RejectionIs401 ==
    \A r \in Reqs : (Responded(r) /\ Rejected(r)) => resp[r].status = 401

RegenerationDone ==
    <<"graphql.rst", "apidoc.rst", "index.rst", "rm _build", "sphinx-build">>

\* C3: an API_KEY request with a non-empty api_key k whose regeneration went
\* through is answered 200 with token_type "API_KEY" and authorization_header k.
C3_ApiKeyPassThrough ==
    \A r \in Reqs :
        (/\ Responded(r)
         /\ req[r].auth_type = "API_KEY"
         /\ req[r].api_key \notin {None, ""}
         /\ steps[r] = RegenerationDone)
        => /\ resp[r].status = 200
           /\ resp[r].token_type = "API_KEY"
           /\ resp[r].authorization_header = req[r].api_key
           /\ resp[r].additional_headers = <<>>

C3_Witness ==
    \E r \in Reqs :
        /\ Responded(r)
        /\ req[r].auth_type = "API_KEY"
        /\ req[r].api_key = "k2"
        /\ resp[r].status = 200
        /\ resp[r].authorization_header = "k2"

\* C4: a successful LAMBDA response has token_type "LAMBDA_CUSTOM", the
\* context's authorizationToken as authorization_header, and as
\* additional_headers exactly one "X-Lambda-<k>" entry, holding str(C[k]), for
\* every other key k of the context C, and no Authorization entry.
C4_LambdaHeaders ==
    \A r \in Reqs :
        (Responded(r) /\ req[r].auth_type = "LAMBDA" /\ resp[r].status = 200)
        => LET C == ext[r].context
               others == DictKeys(C) \ {"authorizationToken"}
           IN /\ resp[r].token_type = "LAMBDA_CUSTOM"
              /\ DictHas(C, "authorizationToken")
                    => resp[r].authorization_header
                          = DictGet(C, "authorizationToken", None).repr
              /\ Len(resp[r].additional_headers) = 1
              /\ LET extra == resp[r].additional_headers[1]
                 IN /\ Len(extra) = Cardinality(others)
                    /\ DictKeys(extra) = {"X-Lambda-" \o k : k \in others}
                    /\ \A k \in others :
                          DictGet(extra, "X-Lambda-" \o k, None) = DictGet(C, k, None).repr
                    /\ "Authorization" \notin DictKeys(extra)

C4_Witness ==
    \E r \in Reqs :
        /\ Responded(r) /\ req[r].auth_type = "LAMBDA" /\ resp[r].status = 200
        /\ DictKeys(ext[r].context) = {"authorizationToken", "role", "ttl"}
        /\ resp[r].authorization_header = "T"
        /\ resp[r].additional_headers = <<<<<<"X-Lambda-role", "None">>, <<"X-Lambda-ttl", "300">>>>>>

\* C5: a 200 response comes after graphql.rst, apidoc.rst and index.rst were
\* written, the build directory deleted and the builder run, in this order,
\* within the same request; the handler reaches its return only after the
\* builder has ended, so an HTML build shows the pages this request wrote.
C5_RegenerationPrecedesSuccess ==
    \A r \in Reqs :
        /\ (Responded(r) /\ resp[r].status = 200)
              => /\ steps[r] = RegenerationDone
                 /\ build_dir.state # "absent"
                 /\ build_dir.state = "html"
                       => build_dir = Built(graphql_rst, apidoc_rst, index_rst)
        /\ pc[r] = "return" => steps[r] = RegenerationDone

C5_Witness ==
    \E r \in Reqs :
        /\ Responded(r) /\ resp[r].status = 200
        /\ req[r].auth_type = "IAM"
        /\ build_dir.state = "html"
        /\ build_dir.graphql # PriorFile

\* C6: after a successful request graphql.rst holds a header map of exactly
\* one entry, keyed "x-api-key" for API_KEY and "Authorization" otherwise, whose
\* value is the authorization_header returned; graphql.rst holds the request's
\* gql_endpoint and apidoc.rst its spec_endpoint.
C6_HeaderMapWritten ==
    \A r \in Reqs :
        (Responded(r) /\ resp[r].status = 200)
        => LET key == IF req[r].auth_type = "API_KEY" THEN "x-api-key" ELSE "Authorization"
               json == "{\"" \o key \o "\": \"" \o resp[r].authorization_header \o "\"}"
           IN /\ graphql_rst[6] = "   " \o json
              /\ graphql_rst[10] = "   :headers: " \o json
              /\ graphql_rst[9] = "   :endpoint: " \o req[r].gql_endpoint
              /\ apidoc_rst[9] = "   :spec-url: " \o req[r].spec_endpoint

C6_Witness ==
    \E r \in Reqs :
        /\ Responded(r) /\ resp[r].status = 200
        /\ req[r].auth_type = "API_KEY"
        /\ graphql_rst[10] = "   :headers: {\"x-api-key\": \"k1\"}"
        /\ \E o \in Reqs : o # r /\ pc[o] = "pending"

\* Between its first file write and the end of its builder run.
InWindow(r) == pc[r] \in {"write_apidoc", "write_index", "rm_build", "sphinx_build"}

\* C7 as stated: while one request is between its first file write and the end
\* of its builder run, another request that has arrived can be taken up.
C7_CanInterleave ==
    \A a \in Reqs, b \in Reqs :
        (a # b /\ InWindow(a) /\ pc[b] = "pending") => ENABLED Begin(b)

\* C7, amended: the handlers of two requests never overlap: while one request
\* is inside get_token, every other request is idle or waiting, so no step of
\* another request falls between its first file write and its builder's end.
C7_Serialized ==
    \A a \in Reqs, b \in Reqs :
        (a # b /\ pc[a] \in InHandler) => pc[b] \in {"idle", "pending"}

C7_Witness ==
    \E a \in Reqs, b \in Reqs :
        /\ a # b
        /\ pc[a] = "sphinx_build"
        /\ pc[b] = "pending"
        /\ graphql_rst # PriorFile

(***************************************************************************)
(* GraphQL Documentation Generator CLI (generate_graphql_rst.py).          *)
(***************************************************************************)
\* --auth_type choices of main(); "LAMBDA" stands for any other value, which
\* only a direct call of generate_graphql_rst can pass.
CliChoices == {"API_KEY", "IAM", "COGNITO_USER_POOLS", "OPENID_CONNECT"}
CliAuthTypes == CliChoices \cup {"LAMBDA"}
CliEndpoints == {"https://a1.appsync-api/graphql", "https://a2.appsync-api/graphql"}
IdTokenOpt == {None, "", "t1", "t2"}

\* The arguments of a run; entry tells whether it came through main().
CliArgs(entry, t, e) ==
    [entry |-> entry, auth_type |-> t, endpoint |-> e, api_key |-> None,
     access_key |-> None, secret_key |-> None, id_token |-> None,
     user_pool_id |-> None, client_id |-> None]

CliArgSets ==
    {[CliArgs(en, "API_KEY", e) EXCEPT !.api_key = k] :
        en \in {"main", "call"}, e \in CliEndpoints, k \in {None, "", "k1"}}
    \cup
    {[CliArgs(en, "IAM", e) EXCEPT !.access_key = a, !.secret_key = k] :
        en \in {"main", "call"}, e \in CliEndpoints, a \in StrOpt, k \in StrOpt}
    \cup
    {[CliArgs(en, "COGNITO_USER_POOLS", e) EXCEPT !.user_pool_id = u, !.client_id = c] :
        en \in {"main", "call"}, e \in CliEndpoints, u \in StrOpt, c \in {None, "", "v"}}
    \cup
    {[CliArgs(en, "OPENID_CONNECT", e) EXCEPT !.id_token = t] :
        en \in {"main", "call"}, e \in CliEndpoints, t \in IdTokenOpt}
    \cup
    {CliArgs(en, "LAMBDA", e) : en \in {"main", "call"}, e \in CliEndpoints}

\* What a run finds outside: ambient credentials of boto3.Session(), the answer
\* of initiate_auth, and the outcome of the sample query.
CliEnv(ambient, idp, http) == [ambient |-> ambient, idp |-> idp, http |-> http]

NoEnv == CliEnv(FALSE, "none", "none")

CliEnvsFor(a) ==
    CASE a.auth_type = "IAM" ->
            {CliEnv(am, "none", h) : am \in BOOLEAN, h \in {"200", "403", "ConnectionError"}}
      [] a.auth_type = "COGNITO_USER_POOLS" ->
            {CliEnv(FALSE, "IdToken", h) : h \in {"200", "401", "ConnectionError"}}
            \cup {CliEnv(FALSE, i, "none") :
                     i \in {"NotAuthorizedException", "ValueError", "UserNotFoundException"}}
      [] OTHER -> {NoEnv}

\* An exception of the run: its class and its message.
CliException(cls, msg) == [cls |-> cls, msg |-> msg]
NoError == CliException("none", "")

\* How generate_headers ends: an exception, or the headers dict.
CliRaised(e) == [raised |-> TRUE, error |-> e, headers |-> EmptyDict]
CliReturned(h) == [raised |-> FALSE, error |-> NoError, headers |-> h]

get_cognito_id_token_Reraise(idp) ==
    CASE idp = "IdToken" -> [raised |-> FALSE, error |-> NoError, value |-> "jwt1"]
      [] OTHER -> [raised |-> TRUE, error |-> CliException(idp, "initiate_auth failed"),
                   value |-> None]

\* get_cognito_id_token: the token, None after NotAuthorizedException or
\* ValueError, and any other exception propagates.
get_cognito_id_token(idp) ==
    CASE idp = "IdToken" -> [raised |-> FALSE, error |-> NoError, value |-> "jwt1"]
      [] idp \in {"NotAuthorizedException", "ValueError"} ->
            [raised |-> FALSE, error |-> NoError, value |-> None]
      [] OTHER -> [raised |-> TRUE, error |-> CliException(idp, "initiate_auth failed"),
                   value |-> None]

\* The headers of the signed AWSRequest: those passed in, then what SigV4Auth adds.
SignedHeaders(headers, key) ==
    DictUpdate(headers,
               <<<<"X-Amz-Date", "20240101T000000Z">>,
                 <<"Authorization", "AWS4-HMAC-SHA256 Credential=" \o key \o "/appsync"
                                    \o ", SignedHeaders=content-type;host;x-amz-date, Signature=ab12">>>>)

OpenIdHeaders_Bearer(headers, auth_details) ==
    DictSet(headers, "Authorization", "Bearer " \o auth_details.id_token)

\* headers["Authorization"] = auth_details["id_token"]
OpenIdHeaders(headers, auth_details) ==
    DictSet(headers, "Authorization", auth_details.id_token)

generate_headers(auth_type, env, auth_details) ==
    LET headers == <<<<"Content-Type", "application/json">>>>
    IN CASE auth_type = "API_KEY" ->
               IF ~Truthy(auth_details.api_key)
               THEN CliRaised(CliException("ValueError",
                              "API Key is required for API_KEY authentication."))
               ELSE CliReturned(DictSet(headers, "x-api-key", auth_details.api_key))
         [] auth_type = "IAM" ->
               IF (~Truthy(auth_details.access_key) \/ ~Truthy(auth_details.secret_key))
                  /\ ~env.ambient
               THEN CliRaised(CliException("ValueError",
                        "AWS credentials not found. Please provide access_key and secret_key."))
               ELSE IF env.http = "ConnectionError"
               THEN CliRaised(CliException("ConnectionError", "sample query failed"))
               ELSE CliReturned(DictUpdate(headers,
                        SignedHeaders(headers,
                            IF ~Truthy(auth_details.access_key) \/ ~Truthy(auth_details.secret_key)
                            THEN "ambient" ELSE auth_details.access_key)))
         [] auth_type = "COGNITO_USER_POOLS" ->
               IF ~Truthy(auth_details.user_pool_id) \/ ~Truthy(auth_details.client_id)
               THEN CliRaised(CliException("ValueError", "UserPool ID and Client ID is not provided!"))
               ELSE LET id_token == get_cognito_id_token(env.idp)
                    IN IF id_token.raised
                       THEN CliRaised(id_token.error)
                       ELSE IF ~Truthy(id_token.value)
                       THEN CliReturned(headers)
                       ELSE IF env.http = "ConnectionError"
                       THEN CliRaised(CliException("ConnectionError", "sample query failed"))
                       ELSE IF env.http = "200"
                       THEN CliReturned(DictUpdate(headers,
                                <<<<"Authorization", "Bearer " \o id_token.value>>>>))
                       ELSE CliReturned(headers)
         [] auth_type = "OPENID_CONNECT" ->
               CliReturned(OpenIdHeaders(headers, auth_details))
         [] OTHER ->
               CliRaised(CliException("ValueError",
                   "Invalid authentication type. Supported types: API_KEY, COGNITO_USER_POOLS, IAM, OPENID_CONNECT."))

\* The page generate_graphql_rst writes.
CliGraphqlRst(endpoint, headers) ==
    <<"GraphQL API Documentation",
      "==========================",
      "",
      ".. graphiql::",
      "    :endpoint: " \o endpoint,
      "    :headers: " \o JsonDumps(headers)>>

\* No file at the path.
NoFile == <<>>

CliInit ==
    /\ cli_pc = "start"
    /\ cli_args = CliArgs("main", "API_KEY", None)
    /\ cli_env = NoEnv
    /\ cli_headers = EmptyDict
    /\ cli_error = NoError
    /\ cli_docs_dir \in BOOLEAN
    /\ cli_graphql_rst \in {NoFile, PriorFile}
    /\ cli_graphql_rst # NoFile => cli_docs_dir
    /\ cli_before = cli_graphql_rst

\* main(): parser.parse_args() rejects an --auth_type outside the choices and
\* exits with status 2; a direct call of generate_graphql_rst skips the parser.
CliMain ==
    /\ cli_pc = "start"
    /\ \E a \in CliArgSets : \E e \in CliEnvsFor(a) :
          /\ cli_args' = a
          /\ cli_env' = e
          /\ IF a.entry = "main" /\ a.auth_type \notin CliChoices
             THEN /\ cli_pc' = "aborted"
                  /\ cli_error' = CliException("SystemExit", "argument --auth_type: invalid choice")
             ELSE /\ cli_pc' = "makedirs"
                  /\ cli_error' = NoError
    /\ cli_headers' = EmptyDict
    /\ cli_before' = cli_graphql_rst
    /\ UNCHANGED <<cli_docs_dir, cli_graphql_rst>>
    /\ UNCHANGED <<tokenVars, jsVars, oaVars, fnVars>>

\* os.makedirs(os.path.dirname(file_path), exist_ok=True)
CliMakedirs ==
    /\ cli_pc = "makedirs"
    /\ cli_docs_dir' = TRUE
    /\ cli_pc' = "generate_headers"
    /\ UNCHANGED <<cli_args, cli_env, cli_headers, cli_error, cli_graphql_rst, cli_before>>
    /\ UNCHANGED <<tokenVars, jsVars, oaVars, fnVars>>

CliGenerateHeaders_OpenFirst ==
    /\ cli_pc = "generate_headers"
    /\ LET h == generate_headers(cli_args.auth_type, cli_env, cli_args)
       IN IF h.raised
          THEN /\ cli_error' = h.error
               /\ cli_pc' = "aborted"
               /\ cli_graphql_rst' = <<"">>
               /\ UNCHANGED cli_headers
          ELSE /\ cli_headers' = h.headers
               /\ cli_pc' = "write"
               /\ UNCHANGED <<cli_error, cli_graphql_rst>>
    /\ UNCHANGED <<cli_args, cli_env, cli_docs_dir, cli_before>>
    /\ UNCHANGED <<tokenVars, jsVars, oaVars, fnVars>>

\* headers = generate_headers(...): an exception ends the run here.
CliGenerateHeaders ==
    /\ cli_pc = "generate_headers"
    /\ LET h == generate_headers(cli_args.auth_type, cli_env, cli_args)
       IN IF h.raised
          THEN /\ cli_error' = h.error
               /\ cli_pc' = "aborted"
               /\ UNCHANGED cli_headers
          ELSE /\ cli_headers' = h.headers
               /\ cli_pc' = "write"
               /\ UNCHANGED cli_error
    /\ UNCHANGED <<cli_args, cli_env, cli_docs_dir, cli_graphql_rst, cli_before>>
    /\ UNCHANGED <<tokenVars, jsVars, oaVars, fnVars>>

\* with open(file_path, "w") as file: ...
CliWrite ==
    /\ cli_pc = "write"
    /\ cli_graphql_rst' = CliGraphqlRst(cli_args.endpoint, cli_headers)
    /\ cli_pc' = "done"
    /\ UNCHANGED <<cli_args, cli_env, cli_headers, cli_error, cli_docs_dir, cli_before>>
    /\ UNCHANGED <<tokenVars, jsVars, oaVars, fnVars>>

\* The process has ended; the tool is started again on the same tree.
CliAgain ==
    /\ cli_pc \in {"done", "aborted"}
    /\ cli_pc' = "start"
    /\ cli_args' = CliArgs("main", "API_KEY", None)
    /\ cli_env' = NoEnv
    /\ cli_headers' = EmptyDict
    /\ cli_error' = NoError
    /\ cli_before' = cli_graphql_rst
    /\ UNCHANGED <<cli_docs_dir, cli_graphql_rst>>
    /\ UNCHANGED <<tokenVars, jsVars, oaVars, fnVars>>

CliNext == CliMain \/ CliMakedirs \/ CliGenerateHeaders \/ CliWrite \/ CliAgain

TokenIdle ==
    /\ pc = [r \in Reqs |-> "idle"]
    /\ req = [r \in Reqs |-> NoReq]
    /\ ext = [r \in Reqs |-> NoAnswer]
    /\ tok = [r \in Reqs |-> NoTok]
    /\ resp = [r \in Reqs |-> NoResp]
    /\ steps = [r \in Reqs |-> <<>>]
    /\ graphql_rst = PriorFile
    /\ apidoc_rst = PriorFile
    /\ index_rst = PriorFile
    /\ build_dir = NoBuild

\* The CLI runs; the service and the other tools are not started.
InitCli == CliInit /\ TokenIdle /\ JsIdle /\ OaIdle /\ FnIdle

SpecCli == InitCli /\ [][CliNext]_vars

(***************************************************************************)
(* Claims about the GraphQL Documentation Generator CLI.                   *)
(***************************************************************************)
\* The parameter validation failures of a run, as the contract lists them.
ValidationFailure(a, e) ==
    \/ a.auth_type = "API_KEY" /\ a.api_key = None
    \/ a.auth_type = "IAM" /\ (a.access_key = None \/ a.secret_key = None) /\ ~e.ambient
    \/ a.auth_type = "COGNITO_USER_POOLS" /\ (a.user_pool_id = None \/ a.client_id = None)
    \/ a.auth_type \notin CliChoices

CliRunning == cli_pc \notin {"off", "start"}

\* C8: a run with a parameter validation failure ends with an invalid-input
\* error (ValueError, or the parser's usage error) and never reaches the write
\* of graphql.rst: the file is as it was when the run started.
C8_ValidationBeforeWrite ==
    (CliRunning /\ ValidationFailure(cli_args, cli_env))
    => /\ cli_pc \notin {"write", "done"}
       /\ cli_graphql_rst = cli_before
       /\ cli_pc = "aborted" => cli_error.cls \in {"ValueError", "SystemExit"}

C8_Witness ==
    /\ cli_pc = "aborted"
    /\ cli_args.auth_type = "COGNITO_USER_POOLS"
    /\ cli_args.user_pool_id # None /\ cli_args.client_id = None
    /\ cli_error.cls = "ValueError"
    /\ cli_graphql_rst = NoFile
    /\ cli_docs_dir

\* C9: a run with auth_type OPENID_CONNECT and no id_token fails with an
\* invalid-input error and does not write graphql.rst.
C9_OpenIdRequiresToken ==
    (CliRunning /\ cli_args.auth_type = "OPENID_CONNECT" /\ cli_args.id_token = None)
    => /\ cli_pc \notin {"write", "done"}
       /\ cli_graphql_rst = cli_before
       /\ cli_pc = "aborted" => cli_error.cls = "ValueError"

\* C10: for OPENID_CONNECT with id_token t the header map written to
\* graphql.rst is exactly {"Content-Type": "application/json", "Authorization": t}.
C10_OpenIdVerbatim ==
    (cli_pc = "done" /\ cli_args.auth_type = "OPENID_CONNECT" /\ cli_args.id_token # None)
    => /\ cli_graphql_rst[6] =
             "    :headers: {\"Content-Type\": \"application/json\", \"Authorization\": \""
             \o cli_args.id_token \o "\"}"
       /\ cli_graphql_rst[5] = "    :endpoint: " \o cli_args.endpoint

C10_Witness ==
    /\ cli_pc = "done"
    /\ cli_args.auth_type = "OPENID_CONNECT"
    /\ cli_args.id_token = "t2"
    /\ cli_before = PriorFile
    /\ cli_graphql_rst[6] =
          "    :headers: {\"Content-Type\": \"application/json\", \"Authorization\": \"t2\"}"

\* A COGNITO_USER_POOLS run that got past the check of its two identifiers.
CognitoRun ==
    /\ cli_pc \in {"done", "aborted"}
    /\ cli_args.auth_type = "COGNITO_USER_POOLS"
    /\ Truthy(cli_args.user_pool_id)
    /\ Truthy(cli_args.client_id)

CognitoBearerLine ==
    "    :headers: {\"Content-Type\": \"application/json\", \"Authorization\": \"Bearer jwt1\"}"

CognitoPlainLine == "    :headers: {\"Content-Type\": \"application/json\"}"

\* C11: in a COGNITO_USER_POOLS run with user_pool_id and client_id given, the
\* header map written to graphql.rst has "Authorization": "Bearer <token>" if
\* and only if the identity provider returned a token and the sample query
\* answered 200; after NotAuthorizedException or ValueError from the provider
\* no error is raised, the map has no Authorization entry and the file is written.
C11_CognitoBearerIffVerified ==
    CognitoRun
    => /\ (cli_pc = "done" /\ cli_graphql_rst[6] = CognitoBearerLine)
            <=> (cli_env.idp = "IdToken" /\ cli_env.http = "200")
       /\ cli_pc = "done" => cli_graphql_rst[6] \in {CognitoBearerLine, CognitoPlainLine}
       /\ cli_env.idp \in {"NotAuthorizedException", "ValueError"}
            => /\ cli_pc = "done"
               /\ cli_error = NoError
               /\ ~DictHas(cli_headers, "Authorization")
               /\ cli_graphql_rst[5] = "    :endpoint: " \o cli_args.endpoint
               /\ cli_graphql_rst[6] = CognitoPlainLine

C11_Witness ==
    /\ CognitoRun
    /\ cli_pc = "done"
    /\ cli_env.idp = "NotAuthorizedException"
    /\ cli_before = PriorFile
    /\ cli_graphql_rst[6] = CognitoPlainLine

(***************************************************************************)
(* JavaScript Reference Generator (generate_js_rst.py).                    *)
(* A line of JavaScript is the sequence of its lexical pieces and its text *)
(* is their concatenation; white space occurs only as the piece " ", and   *)
(* the texts "function" and "{" occur only as whole pieces.                *)
(***************************************************************************)
RECURSIVE Text(_)
Text(line) == IF line = <<>> THEN "" ELSE Head(line) \o Text(Tail(line))

RECURSIVE LStrip(_)
LStrip(line) == IF line # <<>> /\ Head(line) = " " THEN LStrip(Tail(line)) ELSE line

RECURSIVE RStrip(_)
RStrip(line) ==
    IF line # <<>> /\ line[Len(line)] = " "
    THEN RStrip(SubSeq(line, 1, Len(line) - 1))
    ELSE line

\* str.strip()
Strip(line) == RStrip(LStrip(line))

\* str.startswith(prefix)
StartsWith(line, prefix) ==
    Len(line) >= Len(prefix) /\ SubSeq(line, 1, Len(prefix)) = prefix

RECURSIVE Split(_, _)
\* str.split(sep): the parts between the occurrences of sep, left to right.
Split(line, sep) ==
    IF \E i \in 1..Len(line) : line[i] = sep
    THEN LET i == CHOOSE k \in 1..Len(line) :
                      line[k] = sep /\ \A j \in 1..(k - 1) : line[j] # sep
         IN <<SubSeq(line, 1, i - 1)>> \o Split(SubSeq(line, i + 1, Len(line)), sep)
    ELSE <<line>>

RECURSIVE extract_functions_from_js(_)
\* js_content is given as the lines js_content.split('\n') yields.
extract_functions_from_js(lines) ==
    IF lines = <<>> THEN <<>>
    ELSE LET line == Strip(Head(lines))
             rest == extract_functions_from_js(Tail(lines))
         IN IF \/ StartsWith(line, <<"function", " ">>)
               \/ StartsWith(line, <<"async", " ", "function", " ">>)
            THEN <<[name |-> Text(Strip(Split(Split(line, "function")[2], "{")[1]))]>>
                 \o rest
            ELSE rest

RECURSIVE Repeat(_, _)
\* c * n
Repeat(c, n) == IF n = 0 THEN "" ELSE c \o Repeat(c, n - 1)

RECURSIVE AutoFunctions(_, _)
AutoFunctions(module_name, functions) ==
    IF functions = <<>> THEN <<>>
    ELSE <<".. js:autofunction:: " \o module_name \o "." \o Head(functions).name, "">>
         \o AutoFunctions(module_name, Tail(functions))

\* rst_content, as the lines of the file it is written to.
RstContent(module_name, functions) ==
    <<module_name, Repeat("=", Len(module_name)), "", ".. js:module:: " \o module_name, "">>
    \o AutoFunctions(module_name, functions)

\* Lines of the input files.
JsLineFoo == <<"function", " ", "foo", "()", " ", "{", "}">>
JsLineBar == <<" ", " ", "async", " ", "function", " ", "bar", "(x)", " ", "{">>
JsLineArrow == <<"const", " ", "baz", " ", "=", " ", "()", " ", "=>", " ", "{">>
JsLineOn == <<"function", " ", "on", "(", "function", "Name", ")", " ", "{">>

\* Contents of the input files: declarations and an arrow function, an arrow
\* function only, an empty file, `function on(functionName) {`.
JsSamples ==
    {<<JsLineFoo, JsLineArrow, JsLineBar, <<"}">>, <<>>>>,
     <<JsLineArrow, <<>>>>,
     <<<<>>>>,
     <<JsLineOn, <<"}">>, <<>>>>}

\* A path below the input directory: directory part, file name without its
\* extension, extension.
JsPath(dir, stem, extension) == [dir |-> dir, stem |-> stem, ext |-> extension]
NoPath == JsPath("", "", "")

JsPaths ==
    {JsPath("", "app", ".js"), JsPath("lib", "app", ".js"),
     JsPath("lib/deep", "util", ".js"), JsPath("lib", "notes", ".txt")}

\* The input trees: which of the paths exist, and with what content.
JsTrees == UNION {[S -> JsSamples] : S \in SUBSET JsPaths}

\* glob.glob(os.path.join(js_directory, '**/*.js'), recursive=True)
Glob(tree) == {p \in DOMAIN tree : p.ext = ".js"}

\* os.path.splitext(os.path.basename(js_file))[0]
ModuleName(js_file) == js_file.stem

JsArgs(id, od) == [id |-> id, od |-> od]
JsArgSets == {JsArgs(i, o) : i \in {None, "js_src"}, o \in {None, "docs_out"}}

\* parser.parse_args() with --id and --od declared required=True: a missing
\* option ends the process with the usage error, status 2.
JsParseArgs(argv) ==
    IF argv.id = None \/ argv.od = None
    THEN [exited |-> TRUE, status |-> 2]
    ELSE [exited |-> FALSE, status |-> 0]

JsWrite_Append(out, name, page) ==
    [n \in DOMAIN out \cup {name} |->
        IF n = name THEN (IF n \in DOMAIN out THEN out[n] \o page ELSE page) ELSE out[n]]

\* open(rst_file, 'w'); f.write(rst_content)
JsWrite(out, name, page) ==
    [n \in DOMAIN out \cup {name} |-> IF n = name THEN page ELSE out[n]]

\* The output directory exists and holds no page.
JsInit ==
    /\ js_pc = "start"
    /\ js_args = JsArgs(None, None)
    /\ js_tree \in JsTrees
    /\ js_files = {}
    /\ js_last = NoPath
    /\ js_out = <<>>
    /\ js_before = <<>>
    /\ js_exit = 0

\* __main__ up to the call of generate_rst_from_js.
JsMain ==
    /\ js_pc = "start"
    /\ \E argv \in JsArgSets :
          /\ js_args \in {JsArgs(None, None), argv}
          /\ js_args' = argv
          /\ IF JsParseArgs(argv).exited
             THEN js_pc' = "exited" /\ js_exit' = JsParseArgs(argv).status
             ELSE IF argv.id = None \/ argv.od = None
             THEN js_pc' = "exited" /\ js_exit' = 1
             ELSE js_pc' = "glob" /\ js_exit' = 0
    /\ UNCHANGED <<js_tree, js_files, js_last, js_out, js_before>>
    /\ UNCHANGED <<tokenVars, cliVars, oaVars, fnVars>>

\* js_files = glob.glob(...)
JsGlob ==
    /\ js_pc = "glob"
    /\ js_files' = Glob(js_tree)
    /\ js_pc' = "loop"
    /\ UNCHANGED <<js_args, js_tree, js_last, js_out, js_before, js_exit>>
    /\ UNCHANGED <<tokenVars, cliVars, oaVars, fnVars>>

\* One pass of `for js_file in js_files`; glob returns the files in the order
\* the file system lists them.
JsFile(js_file) ==
    /\ js_pc = "loop"
    /\ js_file \in js_files
    /\ LET module_name == ModuleName(js_file)
           functions == extract_functions_from_js(js_tree[js_file])
       IN js_out' = JsWrite(js_out, module_name, RstContent(module_name, functions))
    /\ js_files' = js_files \ {js_file}
    /\ js_last' = js_file
    /\ UNCHANGED <<js_pc, js_args, js_tree, js_before, js_exit>>
    /\ UNCHANGED <<tokenVars, cliVars, oaVars, fnVars>>

\* The loop is over and the process ends.
JsEnd ==
    /\ js_pc = "loop"
    /\ js_files = {}
    /\ js_pc' = "done"
    /\ js_exit' = 0
    /\ UNCHANGED <<js_args, js_tree, js_files, js_last, js_out, js_before>>
    /\ UNCHANGED <<tokenVars, cliVars, oaVars, fnVars>>

\* The process has ended; the same command line is run again on the same
\* tree, with the pages of the earlier run in the output directory.
JsAgain ==
    /\ js_pc = "done"
    /\ js_pc' = "start"
    /\ js_files' = {}
    /\ js_last' = NoPath
    /\ js_before' = js_out
    /\ UNCHANGED <<js_args, js_tree, js_out, js_exit>>
    /\ UNCHANGED <<tokenVars, cliVars, oaVars, fnVars>>

JsNext == JsMain \/ JsGlob \/ (\E f \in JsPaths : JsFile(f)) \/ JsEnd

\* The generator runs; the service and the other tools are not started.
InitJs == JsInit /\ TokenIdle /\ CliIdle /\ OaIdle /\ FnIdle

SpecJs == InitJs /\ [][JsNext]_vars

(***************************************************************************)
(* Claims about the JavaScript Reference Generator.                        *)
(***************************************************************************)
\* The lines that, once trimmed, begin with `function ` or `async function `.
RECURSIVE DeclarationLines(_)
DeclarationLines(lines) ==
    IF lines = <<>> THEN <<>>
    ELSE (IF \/ StartsWith(Strip(Head(lines)), <<"function", " ">>)
             \/ StartsWith(Strip(Head(lines)), <<"async", " ", "function", " ">>)
          THEN <<Strip(Head(lines))>> ELSE <<>>)
         \o DeclarationLines(Tail(lines))

\* The trimmed text between the `function` keyword of a declaration line and
\* the `{` that follows it.
DeclaredName(line) ==
    LET k == CHOOSE i \in 1..Len(line) :
                 line[i] = "function" /\ \A j \in 1..(i - 1) : line[j] # "function"
    IN Text(Strip(Split(SubSeq(line, k + 1, Len(line)), "{")[1]))

RECURSIVE DeclaredDirectives(_, _)
DeclaredDirectives(module_name, decls) ==
    IF decls = <<>> THEN <<>>
    ELSE <<".. js:autofunction:: " \o module_name \o "." \o DeclaredName(Head(decls)), "">>
         \o DeclaredDirectives(module_name, Tail(decls))

\* C12: the page of every scanned file is the title, the underline and the
\* module declaration followed by one autofunction directive per declaration
\* line, in source order, named <module>.<text between `function` and `{`>.
C12_DirectivePerDeclaration ==
    (js_pc \in {"loop", "done"} /\ js_last # NoPath)
    => js_out[ModuleName(js_last)] =
          <<ModuleName(js_last), Repeat("=", Len(ModuleName(js_last))), "",
            ".. js:module:: " \o ModuleName(js_last), "">>
          \o DeclaredDirectives(ModuleName(js_last), DeclarationLines(js_tree[js_last]))

\* C13: after a run over a tree with n JavaScript files there are n pages, and
\* the page of each file was derived from that file.
C13_OnePagePerFile ==
    js_pc = "done"
    => /\ Cardinality(DOMAIN js_out) = Cardinality(Glob(js_tree))
       /\ \A f \in Glob(js_tree) :
             js_out[ModuleName(f)] =
                RstContent(ModuleName(f), extract_functions_from_js(js_tree[f]))

\* C14: a start without --id or without --od ends with exit status 1, and
\* nothing is scanned or written.
C14_MissingOptionExitsOne ==
    (js_pc = "exited" /\ (js_args.id = None \/ js_args.od = None))
    => /\ js_exit = 1
       /\ js_files = {}
       /\ js_last = NoPath
       /\ js_out = <<>>

(***************************************************************************)
(* OpenAPI Spec Generators: the source files they read.                    *)
(* A text the generators take apart (a docstring line, a URL path, a       *)
(* manifest line) is the sequence of its pieces, as for JavaScript lines;  *)
(* the delimiters the code looks for (":", ",", "-", "{", "}", "<", ">",   *)
(* "--auth:") occur only as whole pieces. A docstring is the sequence of   *)
(* its lines. A source file is the sequence of the statements the          *)
(* generators look at, in line order: the position of an item stands for   *)
(* its line number.                                                        *)
(***************************************************************************)
\* ast.get_docstring of a function without a docstring, after `or ""`.
NoDoc == <<>>

\* docstring.split('\n')
DocLines(docstring) == IF docstring = NoDoc THEN <<<<>>>> ELSE docstring

RECURSIVE DocText(_)
\* The docstring as one str.
DocText(docstring) ==
    IF docstring = <<>> THEN ""
    ELSE Text(Head(docstring))
         \o (IF Tail(docstring) = <<>> THEN "" ELSE "\n" \o DocText(Tail(docstring)))

\* str.split(sep, 1)
SplitOnce(line, sep) ==
    IF \E i \in 1..Len(line) : line[i] = sep
    THEN LET i == CHOOSE k \in 1..Len(line) :
                      line[k] = sep /\ \A j \in 1..(k - 1) : line[j] # sep
         IN <<SubSeq(line, 1, i - 1), SubSeq(line, i + 1, Len(line))>>
    ELSE <<line>>

RECURSIVE Ascending(_)
\* A set of line numbers as the sequence of its members, smallest first.
Ascending(S) ==
    IF S = {} THEN <<>>
    ELSE LET m == CHOOSE x \in S : \A y \in S : x <= y
         IN <<m>> \o Ascending(S \ {m})

\* A call expression: `app.route(...)` has form "Attribute" and name "route",
\* `get(...)` has form "Name"; args are the positional arguments, keywords
\* the <<name, value>> keyword arguments; nested tells whether the statement
\* is inside a class body.
PyCall(form, name, args, keywords, nested) ==
    [kind |-> "call", form |-> form, name |-> name, args |-> args,
     keywords |-> keywords, nested |-> nested]

\* A `def` statement with its docstring.
PyDef(name, doc, nested) == [kind |-> "def", name |-> name, doc |-> doc, nested |-> nested]

\* A triple-quoted string that is no function's docstring.
PyString(doc) == [kind |-> "string", doc |-> doc, nested |-> FALSE]

\* A /* ... */ comment block.
CComment(doc) == [kind |-> "comment", doc |-> doc, nested |-> FALSE]

\* An Express route registration `<recv>.<verb>('<path>', ...)`.
TsRoute(recv, verb, path) ==
    [kind |-> "route", recv |-> recv, verb |-> verb, path |-> path, nested |-> FALSE]

\* A source file: its extension, the words of its text that are a framework
\* name in some case, and its items.
SourceFile(extension, mentions, items) ==
    [ext |-> extension, mentions |-> mentions, items |-> items]

UsersPy ==
    SourceFile(".py", {},
      <<PyCall("Attribute", "route", <<<<"/users">>>>, <<<<"methods", <<"GET", "POST">>>>>>, FALSE),
        PyDef("list_users",
              <<<<"Summary", ":", " ", "List users">>,
                <<>>,
                <<"Returns every user.">>>>, FALSE),
        PyCall("Attribute", "route", <<<<"/users">>>>, <<<<"methods", <<"post">>>>>>, FALSE),
        PyDef("create_user",
              <<<<"Endpoint", ":", " ", "/users">>,
                <<"Method", ":", " ", "POST">>,
                <<"SUMMARY", ":", " ", "Create user">>,
                <<"Parameters", ":">>,
                <<"-", " ", "name", ":", " ", "Display name">>,
                <<"Errors", ":">>,
                <<"-", " ", "409", ":", " ", "Name taken">>>>, FALSE),
        PyString(<<<<"Endpoint", ":", " ", "/health">>,
                   <<"Summary", ":", " ", "Health">>>>),
        PyString(<<<<"Endpoint", ":", " ", "/users">>,
                   <<"Summary", ":", " ", "Shadow">>>>)>>)

OrdersPy ==
    SourceFile(".py", {"Flask"},
      <<PyCall("Attribute", "route", <<<<"/orders">>>>, <<<<"methods", <<"GET">>>>>>, FALSE),
        PyDef("list_orders", NoDoc, FALSE),
        PyCall("Attribute", "route", <<<<"/orders/", "{", "id", "}">>>>, <<>>, FALSE),
        PyDef("get_order",
              <<<<"Endpoint", ":", " ", "/orders/", "{", "id", "}">>,
                <<"Method", ":", " ", "GET", ",", " ", "DELETE">>,
                <<"Summary", ":", " ", "Get order">>,
                <<"Description", ":", " ", "One order by id">>>>, FALSE),
        PyCall("Attribute", "route", <<<<"/orders">>>>, <<<<"methods", <<"POST">>>>>>, FALSE),
        PyDef("create_order",
              <<<<"Endpoint", ":", " ", "/orders">>,
                <<"Summary", ":", " ", "Create order">>>>, FALSE)>>)

ItemsPy ==
    SourceFile(".py", {"flask", "FastAPI"},
      <<PyString(<<<<"Endpoint", ":", " ", "/items">>,
                   <<"Summary", ":", " ", "Items">>>>),
        PyCall("Attribute", "get", <<<<"/items">>>>, <<>>, FALSE),
        PyDef("read_items", <<<<"Summary", ":", " ", "Read items">>>>, FALSE)>>)

PingPy ==
    SourceFile(".py", {"fastapi"},
      <<PyCall("Name", "get", <<<<"/ping">>>>, <<>>, FALSE),
        PyDef("ping", NoDoc, FALSE)>>)

ShopTs ==
    SourceFile(".ts", {"fastapi"},
      <<TsRoute("app", "delete", <<"/session">>),
        CComment(<<<<"Endpoint", ":", " ", "/cart">>,
                   <<"Method", ":", " ", "GET">>,
                   <<"Summary", ":", " ", "Show cart">>>>),
        TsRoute("app", "get", <<"/cart">>),
        CComment(<<<<"Endpoint", ":", " ", "/checkout">>,
                   <<"Summary", ":", " ", "Check out">>>>),
        TsRoute("router", "post", <<"/checkout">>)>>)

CartJs ==
    SourceFile(".js", {"Flask"},
      <<CComment(<<<<"Endpoint", ":", " ", "/cart">>,
                   <<"Method", ":", " ", "PUT">>,
                   <<"Summary", ":", " ", "Fill cart">>>>),
        TsRoute("router", "put", <<"/cart">>)>>)

NotesMd == SourceFile(".md", {"flask"}, <<>>)

\* The paths of the runs and what is at each when it is a file; "gone.py" is
\* never a file.
OaPaths == {"users.py", "orders.py", "items.py", "ping.py", "shop.ts", "cart.js", "notes.md"}

OaSource(path) ==
    CASE path = "users.py" -> UsersPy
      [] path = "orders.py" -> OrdersPy
      [] path = "items.py" -> ItemsPy
      [] path = "ping.py" -> PingPy
      [] path = "shop.ts" -> ShopTs
      [] path = "cart.js" -> CartJs
      [] OTHER -> NotesMd

\* os.path.isfile(path)
IsFile(fs, path) == path \in fs

(***************************************************************************)
(* OpenAPI Spec Generator v1 (generate_openapi_spec.py).                   *)
(***************************************************************************)
RECURSIVE V1RouteKeywords(_, _)
\* for keyword in node.keywords
V1RouteKeywords(route_details, keywords) ==
    IF keywords = <<>> THEN route_details
    ELSE LET keyword == Head(keywords)
         IN V1RouteKeywords(
               IF keyword[1] = "methods"
               THEN [route_details EXCEPT !.methods = keyword[2]]
               ELSE IF keyword[1] = "cors"
               THEN [route_details EXCEPT !.cors = keyword[2]]
               ELSE IF keyword[1] = "content_types"
               THEN [route_details EXCEPT !.content_types = keyword[2]]
               ELSE route_details,
               Tail(keywords))

_extract_route_details(node) ==
    LET route_details ==
            V1RouteKeywords([path |-> <<>>, methods |-> <<"GET">>, cors |-> FALSE,
                             content_types |-> <<"application/json">>], node.keywords)
    IN IF node.args # <<>>
       THEN [route_details EXCEPT !.path = node.args[1]]
       ELSE route_details

\* re.match(r'^<field>:\s*(.+)$', line, re.IGNORECASE) on a stripped line:
\* group(1), or <<>> when the line does not match.
V1Match(line, field) ==
    IF Len(line) >= 3 /\ Lower(line[1]) = field /\ line[2] = ":"
    THEN LStrip(SubSeq(line, 3, Len(line)))
    ELSE <<>>

RECURSIVE V1Fields(_, _)
\* The loop over the lines that extracts summary, method and description.
V1Fields(spec, lines) ==
    IF lines = <<>> THEN spec
    ELSE LET line == Head(lines)
             s1 == IF V1Match(line, "summary") # <<>>
                   THEN [spec EXCEPT !.summary = Text(V1Match(line, "summary"))]
                   ELSE spec
             s2 == IF V1Match(line, "method") # <<>>
                   THEN [s1 EXCEPT !.method = Text(V1Match(line, "method"))]
                   ELSE s1
             s3 == IF V1Match(line, "description") # <<>>
                   THEN [s2 EXCEPT !.description = Text(V1Match(line, "description"))]
                   ELSE s2
         IN V1Fields(s3, Tail(lines))

\* lines.index(line), counted from 1; 0 stands for ValueError.
IndexOf(lines, line) ==
    IF \E i \in 1..Len(lines) : lines[i] = line
    THEN CHOOSE i \in 1..Len(lines) : lines[i] = line /\ \A j \in 1..(i - 1) : lines[j] # line
    ELSE 0

RECURSIVE V1Properties(_, _)
\* for detail in ...: if ':' in detail: properties[param.strip()] = {...}
V1Properties(properties, details) ==
    IF details = <<>> THEN properties
    ELSE LET detail == Head(details)
         IN V1Properties(
               IF \E i \in 1..Len(detail) : detail[i] = ":"
               THEN DictSet(properties, Text(Strip(SplitOnce(detail, ":")[1])),
                            [type |-> "string",
                             description |-> Text(Strip(SplitOnce(detail, ":")[2]))])
               ELSE properties,
               Tail(details))

\* spec['responses'] with the given schema for application/json.
V1Responses(schema) ==
    <<<<"200", [description |-> "Successful response",
                content |-> <<<<"application/json", [schema |-> schema]>>>>]>>>>

\* method is None while the spec dict has no 'method' key.
_parse_docstring_specification(docstring) ==
    LET lines == [i \in 1..Len(DocLines(docstring)) |-> Strip(DocLines(docstring)[i])]
        spec == V1Fields([summary |-> "", description |-> DocText(docstring),
                          method |-> None,
                          responses |-> V1Responses([type |-> "object"])], lines)
        request_start == IndexOf(lines, <<"Request", ":">>)
        response_start == IndexOf(lines, <<"Response", ":">>)
    IN IF request_start = 0 \/ response_start = 0
       THEN spec
       ELSE [spec EXCEPT !.responses =
                V1Responses([type |-> "object",
                             properties |->
                                V1Properties(EmptyDict,
                                             SubSeq(lines, response_start + 1, Len(lines)))])]

V1Operation_Synthesized(parsed_spec, func_node) ==
    [summary |-> "Endpoint for " \o func_node.name,
     description |-> parsed_spec.description,
     responses |-> parsed_spec.responses]

\* operation = {...}: parsed_spec always has the three keys, so the defaults
\* of .get are not used.
V1Operation(parsed_spec, func_node) ==
    [summary |-> parsed_spec.summary,
     description |-> parsed_spec.description,
     responses |-> parsed_spec.responses]

\* ast.walk(tree) restricted to the items whose line numbers are in S: the
\* walk is breadth-first, so the statements of class bodies come after the
\* top-level ones.
AstWalk(items, S) ==
    Ascending({i \in S : ~items[i].nested}) \o Ascending({i \in S : items[i].nested})

\* The calls whose callee is an attribute named `route`, in walk order.
RouteCalls(items) ==
    AstWalk(items, {i \in 1..Len(items) :
                       /\ items[i].kind = "call"
                       /\ items[i].form = "Attribute"
                       /\ items[i].name = "route"})

\* next(parent for parent in ast.iter_child_nodes(tree) if FunctionDef and
\* parent.lineno > node.lineno, None); 0 stands for None.
V1FuncNode(items, lineno) ==
    LET later == {j \in 1..Len(items) :
                     items[j].kind = "def" /\ ~items[j].nested /\ j > lineno}
    IN IF later = {} THEN 0 ELSE Ascending(later)[1]

RECURSIVE V1Routes(_, _)
\* What the walk over one file finds: for every route call with a function
\* after it, the route details and the operation; anchor and func are the
\* line numbers of the call and of the function.
V1Routes(items, calls) ==
    IF calls = <<>> THEN <<>>
    ELSE LET node == Head(calls)
             func == V1FuncNode(items, node)
         IN (IF func = 0 THEN <<>>
             ELSE LET route_details == _extract_route_details(items[node])
                      docstring == items[func].doc
                      parsed_spec == _parse_docstring_specification(docstring)
                  IN <<[path |-> route_details.path,
                        methods |-> route_details.methods,
                        operation |-> V1Operation(parsed_spec, items[func]),
                        anchor |-> node, func |-> func]>>)
            \o V1Routes(items, Tail(calls))

V1Put_Reset(paths, path, method, operation) ==
    DictSet(paths, path, <<<<Lower(method), operation>>>>)

\* if path in spec["paths"]: spec["paths"][path][method.lower()] = operation
\* else: spec["paths"][path] = {method.lower(): operation}
V1Put(paths, path, method, operation) ==
    IF DictHas(paths, path)
    THEN DictSet(paths, path, DictSet(DictGet(paths, path, EmptyDict), Lower(method), operation))
    ELSE DictSet(paths, path, <<<<Lower(method), operation>>>>)

RECURSIVE V1PutAll(_, _, _)
\* for method in route_details["methods"]
V1PutAll(paths, route, methods) ==
    IF methods = <<>> THEN paths
    ELSE V1PutAll(V1Put(paths, Text(route.path), Head(methods), route.operation),
                  route, Tail(methods))

\* The document: the spec dict with the given paths.
V1Document(paths) ==
    [openapi |-> "3.0.1",
     info |-> [title |-> "Lambda API Specification", version |-> "1.0.0"],
     paths |-> paths]

(***************************************************************************)
(* OpenAPI Spec Generator v2 (generate_openapi_spec_v2.py): parsers.       *)
(***************************************************************************)
\* F(v), with v evaluated once.
Bind(v, F(_)) == CHOOSE r \in {F(x) : x \in {v}} : TRUE

PathParam(param_name) ==
    [name |-> param_name, in |-> "path", required |-> TRUE,
     schema |-> [type |-> "string"],
     description |-> "Path parameter: " \o param_name]

RECURSIVE parse_path_parameters(_)
\* re.finditer(r'[{<]([^}>]+)[}>]', path)
parse_path_parameters(path) ==
    IF path = <<>> THEN <<>>
    ELSE IF Head(path) \in {"{", "<"}
    THEN LET rest == Tail(path)
             closers == {j \in 1..Len(rest) : rest[j] \in {"}", ">"}}
             j == Ascending(closers)[1]
         IN IF closers # {} /\ j > 1
            THEN <<PathParam(Text(SubSeq(rest, 1, j - 1)))>>
                 \o parse_path_parameters(SubSeq(rest, j + 1, Len(rest)))
            ELSE parse_path_parameters(rest)
    ELSE parse_path_parameters(Tail(path))

RECURSIVE AddPathParameters_All(_, _)
AddPathParameters_All(parameters, path_params) == parameters \o path_params

RECURSIVE AddPathParameters(_, _)
\* for param in path_params: if param["name"] not in existing_names: ...
AddPathParameters(parameters, path_params) ==
    IF path_params = <<>> THEN parameters
    ELSE LET Rest(added) == AddPathParameters(added, Tail(path_params))
         IN Bind(IF \E i \in 1..Len(parameters) :
                       parameters[i].name = Head(path_params).name
                 THEN parameters
                 ELSE Append(parameters, Head(path_params)),
                 Rest)

enhance_parameters(endpoint_info) ==
    [endpoint_info EXCEPT
        !.parameters = AddPathParameters(@, parse_path_parameters(endpoint_info.path))]

\* The words and literals of the Response: sections of the model.
JsonWords == {"id", "status", "7", "open"}
Quoted(word) == "\"" \o word \o "\""
JsonStrings == {Quoted(w) : w \in JsonWords}
JsonScalars == JsonStrings \cup {"7", "true", "null"}

RECURSIVE QuoteKeys(_)
\* re.sub(r'(\w+):', r'"\1":', response_text)
QuoteKeys(text) ==
    IF Len(text) < 2 THEN text
    ELSE IF Head(text) \in JsonWords /\ text[2] = ":"
    THEN <<Quoted(Head(text)), ":">> \o QuoteKeys(SubSeq(text, 3, Len(text)))
    ELSE <<Head(text)>> \o QuoteKeys(Tail(text))

RECURSIVE JoinLines(_)
\* ' '.join(response_json_content)
JoinLines(lines) ==
    IF lines = <<>> THEN <<>>
    ELSE Head(lines) \o (IF Tail(lines) = <<>> THEN <<>> ELSE <<" ">> \o JoinLines(Tail(lines)))

\* str(v) of a parsed JSON scalar.
JsonPyStr(scalar) ==
    CASE scalar \in JsonStrings -> CHOOSE w \in JsonWords : Quoted(w) = scalar
      [] scalar = "true" -> "True"
      [] scalar = "null" -> "None"
      [] OTHER -> scalar

RECURSIVE JsonMembers(_)
\* The members of a JSON object between its braces: ok is FALSE where
\* json.loads raises JSONDecodeError.
JsonMembers(tokens) ==
    IF Len(tokens) >= 3 /\ tokens[1] \in JsonStrings /\ tokens[2] = ":"
       /\ tokens[3] \in JsonScalars
    THEN LET key == CHOOSE w \in JsonWords : Quoted(w) = tokens[1]
         IN IF Len(tokens) = 3
            THEN [ok |-> TRUE, items |-> <<<<key, tokens[3]>>>>]
            ELSE IF tokens[4] = "," /\ Len(tokens) > 4
            THEN LET more == JsonMembers(SubSeq(tokens, 5, Len(tokens)))
                 IN [ok |-> more.ok, items |-> <<<<key, tokens[3]>>>> \o more.items]
            ELSE [ok |-> FALSE, items |-> <<>>]
    ELSE [ok |-> FALSE, items |-> <<>>]

\* json.loads of a text that begins with "{".
JsonLoads(text) ==
    LET tokens == SelectSeq(text, LAMBDA piece : piece # " ")
    IN IF Len(tokens) >= 2 /\ tokens[1] = "{" /\ tokens[Len(tokens)] = "}"
       THEN IF Len(tokens) = 2
            THEN [ok |-> TRUE, items |-> <<>>]
            ELSE JsonMembers(SubSeq(tokens, 2, Len(tokens) - 1))
       ELSE [ok |-> FALSE, items |-> <<>>]

RECURSIVE ResponseProperties(_, _)
\* {k: {"type": "string", "description": str(v)} for k, v in response_schema.items()}
ResponseProperties(properties, items) ==
    IF items = <<>> THEN properties
    ELSE ResponseProperties(
            DictSet(properties, Head(items)[1],
                    [type |-> "string", description |-> JsonPyStr(Head(items)[2])]),
            Tail(items))

RECURSIVE MethodList(_)
\* [m.strip() for m in methods.split(',')]
MethodList(parts) ==
    IF parts = <<>> THEN <<>>
    ELSE <<Text(Strip(Head(parts)))>> \o MethodList(Tail(parts))

EmptySchema == [type |-> "object", properties |-> EmptyDict]

\* The parser's state before the first line.
DocstringStart ==
    [info |-> [path |-> <<>>, methods |-> <<>>, summary |-> "", description |-> "",
               parameters |-> <<>>, request_schema |-> EmptySchema,
               response_schema |-> EmptySchema,
               content_types |-> <<"application/json">>, security |-> <<>>,
               errors |-> EmptyDict],
     current_section |-> None, response_json_started |-> FALSE,
     response_json_content |-> <<>>]

\* One pass of `for line in lines` of parse_docstring.
DocstringLine(st, raw) ==
    LET line == Strip(raw)
        Field(k) == Len(line) >= 2 /\ Lower(line[1]) = k /\ line[2] = ":"
        Header(k) == Len(line) = 2 /\ Field(k)
        value == Text(Strip(SubSeq(line, 3, Len(line))))
        item == Strip(Tail(line))
        name == Text(Strip(SplitOnce(item, ":")[1]))
        desc == Text(Strip(SplitOnce(item, ":")[2]))
        HasColon == \E i \in 1..Len(item) : item[i] = ":"
    IN IF line = <<>> THEN st
       ELSE IF Field("endpoint")
       THEN [st EXCEPT !.info.path = Strip(SubSeq(line, 3, Len(line)))]
       ELSE IF Field("method")
       THEN [st EXCEPT !.info.methods = MethodList(Split(SubSeq(line, 3, Len(line)), ","))]
       ELSE IF Field("description") THEN [st EXCEPT !.info.description = value]
       ELSE IF Field("summary") THEN [st EXCEPT !.info.summary = value]
       ELSE IF Header("parameters") \/ Header("request")
       THEN [st EXCEPT !.current_section = "parameters"]
       ELSE IF Header("response") THEN [st EXCEPT !.current_section = "response"]
       ELSE IF Header("errors") \/ Header("error") THEN [st EXCEPT !.current_section = "error"]
       ELSE IF Header("security") THEN [st EXCEPT !.current_section = "security"]
       ELSE IF st.current_section = "parameters" /\ line[1] = "-"
       THEN IF HasColon
            THEN [st EXCEPT
                    !.info.parameters =
                        Append(@, [name |-> name, in |-> "query", description |-> desc,
                                   required |-> FALSE, schema |-> [type |-> "string"]]),
                    !.info.request_schema.properties =
                        DictSet(@, name, [type |-> "string", description |-> desc])]
            ELSE st
       ELSE IF st.current_section = "response"
       THEN IF line[1] = "{"
            THEN [st EXCEPT !.response_json_started = TRUE,
                            !.response_json_content = <<line>>]
            ELSE IF st.response_json_started
            THEN IF line[Len(line)] = "}"
                 THEN LET loaded == JsonLoads(QuoteKeys(JoinLines(
                                        Append(st.response_json_content, line))))
                      IN [st EXCEPT
                            !.response_json_content = Append(@, line),
                            !.response_json_started = FALSE,
                            !.info.response_schema =
                                IF loaded.ok
                                THEN [type |-> "object",
                                      properties |->
                                          ResponseProperties(EmptyDict, loaded.items)]
                                ELSE @]
                 ELSE [st EXCEPT !.response_json_content = Append(@, line)]
            ELSE st
       ELSE IF st.current_section = "error" /\ line[1] = "-"
       THEN IF HasColon
            THEN [st EXCEPT !.info.errors = DictSet(@, name, [description |-> desc])]
            ELSE st
       ELSE IF st.current_section = "security" /\ line[1] = "-"
       THEN IF HasColon
            THEN [st EXCEPT !.info.security = Append(@, [type |-> name, description |-> desc])]
            ELSE st
       ELSE st

RECURSIVE DocstringLines(_, _)
DocstringLines(st, lines) ==
    IF lines = <<>> THEN st
    ELSE LET Rest(next) == DocstringLines(next, Tail(lines))
         IN Bind(DocstringLine(st, Head(lines)), Rest)

\* parse_docstring returned None.
NoEndpoint == [path |-> <<>>]

\* An EndpointInfo; anchor is the line number of the route declaration the
\* endpoint was built for, 0 for an endpoint found in a docstring scan.
parse_docstring(docstring) ==
    IF docstring = NoDoc THEN NoEndpoint
    ELSE LET Result(info) ==
                 IF info.path # <<>>
                 THEN Bind([path |-> info.path,
                            methods |-> IF info.methods = <<>> THEN <<"GET">>
                                        ELSE info.methods,
                            summary |-> info.summary, description |-> info.description,
                            parameters |-> info.parameters,
                            request_schema |-> info.request_schema,
                            response_schema |-> info.response_schema,
                            content_types |-> info.content_types,
                            security |-> info.security, errors |-> info.errors,
                            anchor |-> 0],
                           enhance_parameters)
                 ELSE NoEndpoint
         IN Bind(DocstringLines(DocstringStart, DocLines(docstring)).info, Result)

RECURSIVE ParseAll(_)
\* The loop over the matches of one docstring pattern.
ParseAll(docstrings) ==
    IF docstrings = <<>> THEN <<>>
    ELSE LET Found(endpoint_info) ==
                 IF endpoint_info # NoEndpoint THEN <<endpoint_info>> ELSE <<>>
         IN Bind(parse_docstring(Head(docstrings)), Found) \o ParseAll(Tail(docstrings))

\* The texts re.finditer finds for the blocks of one kind, in file order.
Blocks(items, kinds) ==
    LET at == Ascending({i \in 1..Len(items) : items[i].kind \in kinds /\ items[i].doc # NoDoc})
    IN [k \in 1..Len(at) |-> items[at[k]].doc]

\* Triple-quoted blocks first (function docstrings are among them), then
\* the /* */ blocks.
_extract_endpoints_from_docstrings(items) ==
    ParseAll(Blocks(items, {"def", "string"})) \o ParseAll(Blocks(items, {"comment"}))

RECURSIVE MergeEndpoints(_, _)
\* for endpoint in docstring_endpoints: if endpoint.path not in seen_paths: ...
MergeEndpoints(endpoints, docstring_endpoints) ==
    IF docstring_endpoints = <<>> THEN endpoints
    ELSE LET Rest(merged) == MergeEndpoints(merged, Tail(docstring_endpoints))
         IN Bind(IF \E i \in 1..Len(endpoints) :
                       endpoints[i].path = Head(docstring_endpoints).path
                 THEN endpoints
                 ELSE Append(endpoints, Head(docstring_endpoints)),
                 Rest)

(***************************************************************************)
(* OpenAPI Spec Generator v2: detection strategies.                        *)
(***************************************************************************)
RECURSIVE V2RouteKeywords(_, _)
\* for keyword in node.keywords
V2RouteKeywords(route_details, keywords) ==
    IF keywords = <<>> THEN route_details
    ELSE LET keyword == Head(keywords)
         IN V2RouteKeywords(
               IF keyword[1] = "methods"
               THEN [route_details EXCEPT !.methods = keyword[2]]
               ELSE IF keyword[1] = "content_types"
               THEN [route_details EXCEPT !.content_types = keyword[2]]
               ELSE route_details,
               Tail(keywords))

_parse_route_decorator(node) ==
    V2RouteKeywords([path |-> IF node.args # <<>> THEN node.args[1] ELSE <<>>,
                     methods |-> <<"GET">>,
                     content_types |-> <<"application/json">>], node.keywords)

\* The arguments of the model's calls are constants, so AttributeError is
\* not raised and the result is never None.
_parse_flask_route(node) ==
    V2RouteKeywords([path |-> IF node.args # <<>> THEN node.args[1] ELSE <<>>,
                     methods |-> <<"GET">>,
                     content_types |-> <<"application/json">>], node.keywords)

\* next(n for n in ast.walk(tree) if FunctionDef and n.lineno > node.lineno,
\* None); 0 stands for None.
V2FuncDef(items, lineno) ==
    LET later == AstWalk(items, {j \in 1..Len(items) : items[j].kind = "def" /\ j > lineno})
    IN IF later = <<>> THEN 0 ELSE later[1]

\* How detect_endpoints ends: an exception, or the list of endpoints.
Detected(endpoints) == [raised |-> FALSE, error |-> "", endpoints |-> endpoints]
DetectRaised(error) == [raised |-> TRUE, error |-> error, endpoints |-> <<>>]

RECURSIVE VanillaRoutes(_, _)
\* The loop over the route calls of PythonVanillaDetector.detect_endpoints.
\* parse_docstring returns no endpoint with an empty path or empty methods,
\* so of the three updates only the one of content_types takes effect.
VanillaRoutes(items, calls) ==
    IF calls = <<>> THEN <<>>
    ELSE LET node == Head(calls)
             func_def == V2FuncDef(items, node)
         IN (IF func_def = 0 THEN <<>>
             ELSE LET route_info == _parse_route_decorator(items[node])
                      docstring == items[func_def].doc
                      Found(endpoint_info) ==
                     IF endpoint_info # NoEndpoint
                     THEN <<[endpoint_info EXCEPT
                                !.content_types = route_info.content_types,
                                !.anchor = node]>>
                     ELSE <<[path |-> route_info.path,
                             methods |-> route_info.methods,
                             summary |-> "Endpoint for " \o items[func_def].name,
                             description |-> DocText(docstring),
                             parameters |-> <<>>,
                             request_schema |-> EmptySchema,
                             response_schema |-> EmptySchema,
                             content_types |-> route_info.content_types,
                             security |-> <<>>, errors |-> EmptyDict,
                             anchor |-> node]>>
                  IN Bind(parse_docstring(docstring), Found))
            \o VanillaRoutes(items, Tail(calls))

RECURSIVE FlaskRoutes(_, _)
\* The loop over the route calls of PythonFlaskDetector.detect_endpoints: a
\* route is kept only when parse_docstring returned an endpoint, and then
\* its path and methods are never empty.
FlaskRoutes(items, calls) ==
    IF calls = <<>> THEN <<>>
    ELSE LET node == Head(calls)
             func_def == V2FuncDef(items, node)
             Found(endpoint_info) ==
                 IF endpoint_info # NoEndpoint
                 THEN <<[endpoint_info EXCEPT !.anchor = node]>>
                 ELSE <<>>
         IN Bind(IF func_def = 0 THEN NoEndpoint ELSE parse_docstring(items[func_def].doc),
                 Found)
            \o FlaskRoutes(items, Tail(calls))

\* PythonFastAPIDetector.detect_endpoints: _parse_fastapi_docs returns None,
\* so the first call of a bare name get/post/put/delete that has a function
\* after it raises TypeError at doc_info["summary"]; without such a call the
\* list stays empty. There is no docstring scan.
FastAPIDetect(items) ==
    IF \E i \in 1..Len(items) :
          /\ items[i].kind = "call"
          /\ items[i].form = "Name"
          /\ items[i].name \in {"get", "post", "put", "delete"}
          /\ V2FuncDef(items, i) # 0
    THEN DetectRaised("TypeError")
    ELSE Detected(<<>>)

\* re.search(r'/\*(.*?)\*/', file_content[:match.start()], re.DOTALL): the
\* first comment block of the text before the route.
ExpressDocstring(items, start) ==
    LET before == {j \in 1..(start - 1) : items[j].kind = "comment"}
    IN IF before = {} THEN NoDoc ELSE items[Ascending(before)[1]].doc

RECURSIVE ExpressRoutes(_, _)
\* The loop over the route matches of TypeScriptExpressDetector.
ExpressRoutes(items, matches) ==
    IF matches = <<>> THEN <<>>
    ELSE LET match == Head(matches)
             Found(endpoint_info) ==
                 IF endpoint_info # NoEndpoint
                 THEN <<[endpoint_info EXCEPT !.anchor = match]>>
                 ELSE <<>>
         IN Bind(parse_docstring(ExpressDocstring(items, match)), Found)
            \o ExpressRoutes(items, Tail(matches))

\* re.finditer(route_pattern, file_content)
ExpressMatches(items) ==
    Ascending({i \in 1..Len(items) :
                  /\ items[i].kind = "route"
                  /\ items[i].recv \in {"app", "router"}
                  /\ items[i].verb \in {"get", "post", "put", "delete"}})

\* detector.detect_endpoints(content) of the four strategies.
detect_endpoints(strategy, items) ==
    CASE strategy = "vanilla" ->
            Detected(MergeEndpoints(VanillaRoutes(items, RouteCalls(items)),
                                    _extract_endpoints_from_docstrings(items)))
      [] strategy = "flask" ->
            Detected(MergeEndpoints(FlaskRoutes(items, RouteCalls(items)),
                                    _extract_endpoints_from_docstrings(items)))
      [] strategy = "fastapi" -> FastAPIDetect(items)
      [] strategy = "express" ->
            Detected(MergeEndpoints(ExpressRoutes(items, ExpressMatches(items)),
                                    _extract_endpoints_from_docstrings(items)))

\* name in content.lower()
Contains(file, name) == \E word \in file.mentions : Lower(word) = name

_detect_language_and_framework_FlaskFirst(file) ==
    IF file.ext = ".py"
    THEN IF Contains(file, "flask") THEN "flask"
         ELSE IF Contains(file, "fastapi") THEN "fastapi"
         ELSE "vanilla"
    ELSE IF file.ext = ".ts" \/ file.ext = ".js" THEN "express"
    ELSE "none"

\* _detect_language_and_framework: the strategy for a file, "none" for None.
\* The strategies are built per file; ast.parse is given Python in the .py
\* files of the model.
_detect_language_and_framework(file) ==
    IF file.ext = ".py"
    THEN IF Contains(file, "fastapi") THEN "fastapi"
         ELSE IF Contains(file, "flask") THEN "flask"
         ELSE "vanilla"
    ELSE IF file.ext = ".ts" \/ file.ext = ".js" THEN "express"
    ELSE "none"

(***************************************************************************)
(* OpenAPI Spec Generator v2: the document.                                *)
(***************************************************************************)
\* {ct: {"schema": endpoint.response_schema} for ct in endpoint.content_types}
V2Content(endpoint) ==
    DictUpdate(EmptyDict,
               [i \in 1..Len(endpoint.content_types) |->
                   <<endpoint.content_types[i], [schema |-> endpoint.response_schema]>>])

\* operation["responses"], the error responses added.
V2Responses(endpoint) ==
    DictUpdate(<<<<"200", [description |-> "Successful response",
                           content |-> V2Content(endpoint)]>>>>,
               endpoint.errors)

V2Operation_ApiKeyUnlessCognito(endpoint, auth_type) ==
    [summary |-> endpoint.summary, description |-> endpoint.description,
     parameters |-> endpoint.parameters, responses |-> V2Responses(endpoint),
     security |-> IF auth_type = "cognito" THEN <<<<<<"CognitoAuth", <<>>>>>>>>
                  ELSE <<<<<<"ApiKeyAuth", <<>>>>>>>>]

\* The operation of one method of an endpoint; it has a security key for the
\* auth types api_key and cognito only.
V2Operation(endpoint, auth_type) ==
    IF auth_type = "api_key"
    THEN [summary |-> endpoint.summary, description |-> endpoint.description,
          parameters |-> endpoint.parameters, responses |-> V2Responses(endpoint),
          security |-> <<<<<<"ApiKeyAuth", <<>>>>>>>>]
    ELSE IF auth_type = "cognito"
    THEN [summary |-> endpoint.summary, description |-> endpoint.description,
          parameters |-> endpoint.parameters, responses |-> V2Responses(endpoint),
          security |-> <<<<<<"CognitoAuth", <<>>>>>>>>]
    ELSE [summary |-> endpoint.summary, description |-> endpoint.description,
          parameters |-> endpoint.parameters, responses |-> V2Responses(endpoint)]

\* spec["paths"][endpoint.path][method.lower()] = operation
V2Put(paths, path, method, operation) ==
    DictSet(paths, path, DictSet(DictGet(paths, path, EmptyDict), Lower(method), operation))

RECURSIVE V2PutAll(_, _, _, _)
\* for method in endpoint.methods
V2PutAll(paths, endpoint, auth_type, methods) ==
    IF methods = <<>> THEN paths
    ELSE LET Rest(put) == V2PutAll(put, endpoint, auth_type, Tail(methods))
         IN Bind(V2Put(paths, Text(endpoint.path), Head(methods),
                       V2Operation(endpoint, auth_type)),
                 Rest)

\* One pass of `for endpoint in endpoints`.
V2PutEndpoint(paths, endpoint, auth_type) ==
    V2PutAll(IF DictHas(paths, Text(endpoint.path))
             THEN paths
             ELSE DictSet(paths, Text(endpoint.path), EmptyDict),
             endpoint, auth_type, endpoint.methods)

V2Document(paths) ==
    [openapi |-> "3.0.1",
     info |-> [title |-> "API Specification", version |-> "1.0.0"],
     paths |-> paths,
     components |->
        [securitySchemes |->
            <<<<"ApiKeyAuth", [type |-> "apiKey", in |-> "header", name |-> "X-API-Key"]>>,
              <<"CognitoAuth", [type |-> "http", scheme |-> "bearer",
                                bearerFormat |-> "JWT"]>>>>]]

\* One pass of `for line in f` of parse_input_file.
ManifestLine(st, raw) ==
    LET line == Strip(raw)
    IN IF line = <<>> THEN st
       ELSE IF StartsWith(line, <<"--auth:">>)
       THEN LET current_auth == Text(Strip(Tail(line)))
            IN [auth_files |-> DictSet(st.auth_files, current_auth, <<>>),
                current_auth |-> current_auth]
       ELSE IF Truthy(st.current_auth)
       THEN [st EXCEPT !.auth_files =
                DictSet(@, st.current_auth,
                        Append(DictGet(@, st.current_auth, <<>>), Text(line)))]
       ELSE st

RECURSIVE ManifestLines(_, _)
ManifestLines(st, lines) ==
    IF lines = <<>> THEN st
    ELSE LET Rest(next) == ManifestLines(next, Tail(lines))
         IN Bind(ManifestLine(st, Head(lines)), Rest)

\* The dict auth type -> list of paths.
parse_input_file(lines) ==
    ManifestLines([auth_files |-> EmptyDict, current_auth |-> None], lines).auth_files

RECURSIVE Flatten(_)
\* The <<auth type, path>> pairs in the order of the two nested loops over
\* auth_files.items() and file_paths.
Flatten(auth_files) ==
    IF auth_files = <<>> THEN <<>>
    ELSE LET auth_type == Head(auth_files)[1]
             file_paths == Head(auth_files)[2]
         IN [i \in 1..Len(file_paths) |-> <<auth_type, file_paths[i]>>]
            \o Flatten(Tail(auth_files))

(***************************************************************************)
(* OpenAPI Spec Generators: the runs.                                      *)
(***************************************************************************)
\* The longest command line of v1, in paths.
MaxArgs == 2

\* A run: the generator, its command-line paths (v1), the lines of
\* input_script_spec.txt (v2).
OaInput(version, argv, manifest) ==
    [version |-> version, argv |-> argv, manifest |-> manifest]
NoInput == OaInput("none", <<>>, <<>>)

V1Pool == {"users.py", "orders.py", "ping.py", "shop.ts", "gone.py"}
V1Argvs == UNION {[1..n -> V1Pool] : n \in 0..MaxArgs}

Manifests ==
    {<<<<"--auth:", " ", "api_key">>, <<"users.py">>, <<"orders.py">>, <<>>,
       <<"--auth:", "cognito">>, <<" ", "shop.ts", " ">>>>,
     <<<<"--auth:", " ", "internal">>, <<"items.py">>, <<"notes.md">>, <<"cart.js">>,
       <<"users.py">>>>,
     <<<<"--auth:", "api_key">>, <<"users.py">>, <<"ping.py">>, <<"orders.py">>>>,
     <<<<"--auth:", "cognito">>, <<"users.py">>, <<"gone.py">>>>,
     <<<<"gone.py">>, <<"--auth:", "api_key">>, <<"users.py">>,
       <<"--auth:", "api_key">>, <<"orders.py">>>>,
     <<>>,
     <<<<"--auth:", "cognito">>, <<"orders.py">>,
       <<"--auth:", "api_key">>, <<"shop.ts">>, <<"users.py">>>>,
     <<<<"--auth:", "api_key">>, <<"users.py">>, <<"--auth:", "cognito">>, <<"users.py">>>>}

\* The file systems of the runs: all the paths of OaPaths are files, or all
\* but one.
OaFileSystems == {OaPaths} \cup {OaPaths \ {p} : p \in OaPaths}

\* The file a run is at: its path and auth type, the strategy chosen for it,
\* the endpoints detected in it, the exception that ended the run there.
OaFile(path, auth_type, strategy, endpoints, error) ==
    [path |-> path, auth |-> auth_type, strategy |-> strategy, endpoints |-> endpoints,
     error |-> error]
NoOaFile == OaFile("", "", "", <<>>, "")

\* ../src/openapi_spec.json left by an earlier run.
OaPriorFile == <<V1Document(<<<<"/old", EmptyDict>>>>)>>

V1Validate_FirstOnly(fs, lambda_file_paths) == IsFile(fs, lambda_file_paths[1])

\* for path in lambda_file_paths: if not os.path.isfile(path): sys.exit(1)
V1Validate(fs, lambda_file_paths) ==
    \A i \in 1..Len(lambda_file_paths) : IsFile(fs, lambda_file_paths[i])

\* for files in auth_files.values(): for path in files: if not isfile: exit(1)
V2Validate(fs, auth_files) ==
    \A i \in 1..Len(auth_files) :
        \A k \in 1..Len(auth_files[i][2]) : IsFile(fs, auth_files[i][2][k])

OaInit ==
    /\ oa_pc = "start"
    /\ oa_input = NoInput
    /\ oa_fs \in OaFileSystems
    /\ oa_queue = <<>>
    /\ oa_file = NoOaFile
    /\ oa_todo = <<>>
    /\ oa_last = NoEndpoint
    /\ oa_spec = EmptyDict
    /\ oa_opened = <<>>
    /\ oa_out \in {NoFile, OaPriorFile}
    /\ oa_before = oa_out
    /\ oa_exit = 0

\* The run ends with the given exit status; an uncaught exception gives 1.
OaExit(status) ==
    /\ oa_pc' = "exited"
    /\ oa_exit' = status

\* v1 main() up to the construction of the generator.
V1Main ==
    /\ oa_pc = "start"
    /\ \E argv \in V1Argvs :
          /\ oa_input \in {NoInput, OaInput("v1", argv, <<>>)}
          /\ oa_input' = OaInput("v1", argv, <<>>)
          /\ IF Len(argv) + 1 < 2
             THEN OaExit(1) /\ UNCHANGED oa_queue
             ELSE IF ~V1Validate(oa_fs, argv)
             THEN OaExit(1) /\ UNCHANGED oa_queue
             ELSE /\ oa_pc' = "v1_files"
                  /\ oa_queue' = [i \in 1..Len(argv) |-> <<"", argv[i]>>]
                  /\ UNCHANGED oa_exit
    /\ UNCHANGED <<oa_fs, oa_file, oa_todo, oa_last, oa_spec, oa_opened, oa_out, oa_before>>
    /\ UNCHANGED <<tokenVars, cliVars, jsVars, fnVars>>

\* One pass of `for lambda_file_path in self.lambda_file_paths` up to the
\* walk: open, read, ast.parse (SyntaxError for a file that is not Python),
\* and what the walk will find.
V1File ==
    /\ oa_pc = "v1_files"
    /\ oa_todo = <<>>
    /\ oa_queue # <<>>
    /\ LET path == Head(oa_queue)[2]
           file == OaSource(path)
       IN IF ~IsFile(oa_fs, path)
          THEN /\ OaExit(1)
               /\ oa_file' = OaFile(path, "", "v1", <<>>, "FileNotFoundError")
               /\ UNCHANGED <<oa_todo, oa_opened>>
          ELSE IF file.ext # ".py"
          THEN /\ OaExit(1)
               /\ oa_file' = OaFile(path, "", "v1", <<>>, "SyntaxError")
               /\ oa_opened' = Append(oa_opened, path)
               /\ UNCHANGED oa_todo
          ELSE /\ oa_todo' = V1Routes(file.items, RouteCalls(file.items))
               /\ oa_file' = OaFile(path, "", "v1", oa_todo', "")
               /\ oa_opened' = Append(oa_opened, path)
               /\ UNCHANGED <<oa_pc, oa_exit>>
    /\ oa_queue' = Tail(oa_queue)
    /\ UNCHANGED <<oa_input, oa_fs, oa_last, oa_spec, oa_out, oa_before>>
    /\ UNCHANGED <<tokenVars, cliVars, jsVars, fnVars>>

\* The body of `if func_node:` for one route call: all its methods.
V1Route ==
    /\ oa_pc = "v1_files"
    /\ oa_todo # <<>>
    /\ oa_spec' = V1PutAll(oa_spec, Head(oa_todo), Head(oa_todo).methods)
    /\ oa_last' = Head(oa_todo)
    /\ oa_todo' = Tail(oa_todo)
    /\ UNCHANGED <<oa_pc, oa_input, oa_fs, oa_queue, oa_file, oa_opened, oa_out, oa_before,
                   oa_exit>>
    /\ UNCHANGED <<tokenVars, cliVars, jsVars, fnVars>>

\* generator.save_specification("../src/openapi_spec.json"); the file is
\* written as the document json.dump serialises.
V1Save ==
    /\ oa_pc = "v1_files"
    /\ oa_todo = <<>>
    /\ oa_queue = <<>>
    /\ oa_out' = <<V1Document(oa_spec)>>
    /\ oa_pc' = "done"
    /\ oa_exit' = 0
    /\ UNCHANGED <<oa_input, oa_fs, oa_queue, oa_file, oa_todo, oa_last, oa_spec, oa_opened,
                   oa_before>>
    /\ UNCHANGED <<tokenVars, cliVars, jsVars, fnVars>>

\* v2 main() up to the construction of the generator; input_script_spec.txt
\* exists.
V2Main ==
    /\ oa_pc = "start"
    /\ \E manifest \in Manifests :
          LET auth_files == parse_input_file(manifest)
          IN /\ oa_input \in {NoInput, OaInput("v2", <<>>, manifest)}
             /\ oa_input' = OaInput("v2", <<>>, manifest)
             /\ IF ~V2Validate(oa_fs, auth_files)
                THEN OaExit(1) /\ UNCHANGED oa_queue
                ELSE /\ oa_pc' = "v2_files"
                     /\ oa_queue' = Flatten(auth_files)
                     /\ UNCHANGED oa_exit
    /\ UNCHANGED <<oa_fs, oa_file, oa_todo, oa_last, oa_spec, oa_opened, oa_out, oa_before>>
    /\ UNCHANGED <<tokenVars, cliVars, jsVars, fnVars>>

\* One pass of `for file_path in file_paths` up to the loop over the
\* endpoints: the strategy is chosen and detects; a file without strategy
\* is skipped.
V2File ==
    /\ oa_pc = "v2_files"
    /\ oa_todo = <<>>
    /\ oa_queue # <<>>
    /\ LET auth_type == Head(oa_queue)[1]
           path == Head(oa_queue)[2]
           file == OaSource(path)
           strategy == _detect_language_and_framework(file)
       IN \E found \in {IF IsFile(oa_fs, path) /\ strategy # "none"
                         THEN detect_endpoints(strategy, file.items)
                         ELSE Detected(<<>>)} :
          IF ~IsFile(oa_fs, path)
          THEN /\ OaExit(1)
               /\ oa_file' = OaFile(path, auth_type, "", <<>>, "FileNotFoundError")
               /\ UNCHANGED <<oa_todo, oa_opened>>
          ELSE IF strategy = "none"
          THEN /\ oa_file' = OaFile(path, auth_type, strategy, <<>>, "")
               /\ oa_opened' = Append(oa_opened, path)
               /\ UNCHANGED <<oa_pc, oa_exit, oa_todo>>
          ELSE IF found.raised
          THEN /\ OaExit(1)
               /\ oa_file' = OaFile(path, auth_type, strategy, <<>>, found.error)
               /\ oa_opened' = Append(oa_opened, path)
               /\ UNCHANGED oa_todo
          ELSE /\ oa_todo' = found.endpoints
               /\ oa_file' = OaFile(path, auth_type, strategy, found.endpoints, "")
               /\ oa_opened' = Append(oa_opened, path)
               /\ UNCHANGED <<oa_pc, oa_exit>>
    /\ oa_queue' = Tail(oa_queue)
    /\ UNCHANGED <<oa_input, oa_fs, oa_last, oa_spec, oa_out, oa_before>>
    /\ UNCHANGED <<tokenVars, cliVars, jsVars, fnVars>>

\* One pass of `for endpoint in endpoints`: all the methods of the endpoint.
V2Endpoint ==
    /\ oa_pc = "v2_files"
    /\ oa_todo # <<>>
    /\ oa_spec' = V2PutEndpoint(oa_spec, Head(oa_todo), oa_file.auth)
    /\ oa_last' = Head(oa_todo)
    /\ oa_todo' = Tail(oa_todo)
    /\ UNCHANGED <<oa_pc, oa_input, oa_fs, oa_queue, oa_file, oa_opened, oa_out, oa_before,
                   oa_exit>>
    /\ UNCHANGED <<tokenVars, cliVars, jsVars, fnVars>>

\* The write of save_specification, after generate_specification returned.
V2Save ==
    /\ oa_pc = "v2_files"
    /\ oa_todo = <<>>
    /\ oa_queue = <<>>
    /\ oa_out' = <<V2Document(oa_spec)>>
    /\ oa_pc' = "done"
    /\ oa_exit' = 0
    /\ UNCHANGED <<oa_input, oa_fs, oa_queue, oa_file, oa_todo, oa_last, oa_spec, oa_opened,
                   oa_before>>
    /\ UNCHANGED <<tokenVars, cliVars, jsVars, fnVars>>

\* The process has ended; the same generator is run again with the same
\* command line or manifest on the same files, and finds the document of
\* the earlier run.  A new process starts with an empty spec["paths"].
OaAgain ==
    /\ oa_pc = "done"
    /\ oa_pc' = "start"
    /\ oa_queue' = <<>>
    /\ oa_file' = NoOaFile
    /\ oa_todo' = <<>>
    /\ oa_last' = NoEndpoint
    /\ oa_spec' = EmptyDict
    /\ oa_opened' = <<>>
    /\ oa_before' = oa_out
    /\ UNCHANGED <<oa_input, oa_fs, oa_out, oa_exit>>
    /\ UNCHANGED <<tokenVars, cliVars, jsVars, fnVars>>

OaNext == V1Main \/ V1File \/ V1Route \/ V1Save \/ V2Main \/ V2File \/ V2Endpoint \/ V2Save

\* A generator runs; the service and the other tools are not started.
InitOpenapi == OaInit /\ TokenIdle /\ CliIdle /\ JsIdle /\ FnIdle

SpecOpenapi == InitOpenapi /\ [][OaNext]_vars

(***************************************************************************)
(* OpenAPI Spec Generators: properties.                                    *)
(***************************************************************************)
\* The operation of paths[p][m]; m is a key of paths[p].
OperationAt(paths, p, m) == DictGet(DictGet(paths, p, EmptyDict), m, EmptyDict)
HasOperation(paths, p, m) == DictHas(paths, p) /\ DictHas(DictGet(paths, p, EmptyDict), m)

\* The last route or endpoint of the current file has just been put into the
\* paths: it is the one before the remaining ones.
OaEmitted ==
    /\ oa_file.error = ""
    /\ oa_last # NoEndpoint
    /\ Len(oa_todo) < Len(oa_file.endpoints)
    /\ oa_file.endpoints[Len(oa_file.endpoints) - Len(oa_todo)] = oa_last

\* The lines of a docstring that are a summary field, in any case.
SummaryLines(docstring) ==
    {i \in 1..Len(DocLines(docstring)) :
        LET line == Strip(DocLines(docstring)[i])
        IN Len(line) >= 3 /\ Lower(line[1]) = "summary" /\ line[2] = ":"}

\* The handler of the last v1 route has the one line `Summary: s`.
C15_HasSummary ==
    /\ oa_input.version = "v1"
    /\ OaEmitted
    /\ LET docstring == OaSource(oa_file.path).items[oa_last.func].doc
       IN /\ Cardinality(SummaryLines(docstring)) = 1
          /\ \A i \in SummaryLines(docstring) : Strip(DocLines(docstring)[i])[1] = "Summary"

\* s of that line.
C15_S ==
    LET docstring == OaSource(oa_file.path).items[oa_last.func].doc
        line == Strip(DocLines(docstring)[CHOOSE i \in SummaryLines(docstring) : TRUE])
    IN Text(LStrip(SubSeq(line, 3, Len(line))))

\* C15: v1, right after a route call with path p and methods M whose handler
\* docstring has a `Summary: s` line is processed, paths[p][lowercase(m)]
\* exists for every m in M, its summary is s, and the operations of all the
\* methods of the route are the same.
C15_SummaryForEveryMethod ==
    C15_HasSummary =>
        \A i \in 1..Len(oa_last.methods) :
            /\ HasOperation(oa_spec, Text(oa_last.path), Lower(oa_last.methods[i]))
            /\ OperationAt(oa_spec, Text(oa_last.path), Lower(oa_last.methods[i])).summary
                   = C15_S
            /\ OperationAt(oa_spec, Text(oa_last.path), Lower(oa_last.methods[i]))
                   = OperationAt(oa_spec, Text(oa_last.path), Lower(oa_last.methods[1]))

\* A route with two methods and a summary has been processed.
C15_Witness ==
    /\ C15_HasSummary
    /\ Len(oa_last.methods) = 2
    /\ Lower(oa_last.methods[1]) # Lower(oa_last.methods[2])
    /\ C15_S = "List users"

\* The keys of the operations of a path.
HttpVerbs == {"get", "post", "put", "delete", "patch", "head", "options", "trace"}

\* The operation a route or endpoint gives to each of its methods.
OaOperation(version, entry, auth_type) ==
    IF version = "v1" THEN entry.operation ELSE V2Operation(entry, auth_type)

\* The keys of paths[p] an entry writes.
OaKeys(entry) == {Lower(entry.methods[i]) : i \in 1..Len(entry.methods)}

C16_LowercaseVerbs ==
    \A i \in 1..Len(oa_spec) : DictKeys(oa_spec[i][2]) \subseteq HttpVerbs

C16_Step ==
    /\ \A i \in 1..Len(oa_spec) :
          \A m \in DictKeys(oa_spec[i][2]) :
             /\ HasOperation(oa_spec', oa_spec[i][1], m)
             /\ \/ OperationAt(oa_spec', oa_spec[i][1], m)
                      = OperationAt(oa_spec, oa_spec[i][1], m)
                \/ /\ oa_spec[i][1] = Text(oa_last'.path)
                   /\ m \in OaKeys(oa_last')
    /\ oa_spec' # oa_spec =>
          \A m \in OaKeys(oa_last') :
             /\ HasOperation(oa_spec', Text(oa_last'.path), m)
             /\ OperationAt(oa_spec', Text(oa_last'.path), m)
                   = OaOperation(oa_input.version, oa_last', oa_file.auth)

\* C16: in both generators the keys under paths[p] are always lowercase HTTP
\* verbs; a step never removes an operation, changes only the operations of
\* the path and methods of the route or endpoint it processes, and leaves
\* there the operation of that route or endpoint, whether or not the pair
\* was declared before.
C16_MethodsCoexistAndReplace == []C16_LowercaseVerbs /\ [][C16_Step]_vars

\* The route or endpoint just processed replaced the operation of an earlier
\* one of the file for a method they share, and a method of the earlier one
\* that it does not declare is still there with the earlier operation.
C16_Witness ==
    /\ OaEmitted
    /\ \E k \in 1..(Len(oa_file.endpoints) - Len(oa_todo) - 1) :
          LET earlier == oa_file.endpoints[k]
          IN /\ earlier.path = oa_last.path
             /\ OaOperation(oa_input.version, earlier, oa_file.auth)
                   # OaOperation(oa_input.version, oa_last, oa_file.auth)
             /\ \E m \in OaKeys(earlier) \cap OaKeys(oa_last) :
                   OperationAt(oa_spec, Text(oa_last.path), m)
                      = OaOperation(oa_input.version, oa_last, oa_file.auth)
             /\ \E m \in OaKeys(earlier) \ OaKeys(oa_last) :
                   OperationAt(oa_spec, Text(oa_last.path), m)
                      = OaOperation(oa_input.version, earlier, oa_file.auth)

\* The input paths of the run: the command-line arguments of v1, the paths
\* of the groups of the manifest of v2.
OaInputPaths ==
    IF oa_input.version = "v1" THEN oa_input.argv
    ELSE [i \in 1..Len(Flatten(parse_input_file(oa_input.manifest))) |->
             Flatten(parse_input_file(oa_input.manifest))[i][2]]

OaBadInput ==
    \/ oa_input.version = "v1" /\ oa_input.argv = <<>>
    \/ \E i \in 1..Len(OaInputPaths) : ~IsFile(oa_fs, OaInputPaths[i])

V2Detected ==
    /\ oa_input.version = "v2"
    /\ oa_file.strategy \in {"vanilla", "flask", "fastapi", "express"}
    /\ oa_file.error = ""

\* C18: v2, every strategy: the list returned for a file is its endpoints
\* anchored at a route declaration, in discovery order, followed by the
\* docstring-only endpoints of the file whose path is not yet in the list.
C18_AnchoredThenDocstringOnly ==
    V2Detected =>
        oa_file.endpoints =
            MergeEndpoints(SelectSeq(oa_file.endpoints, LAMBDA e : e.anchor # 0),
                           _extract_endpoints_from_docstrings(OaSource(oa_file.path).items))

\* The line numbers of the route declarations a strategy looks for, each
\* with a handler after it (Python) or as matched (Express).
RouteDeclarations(strategy, items) ==
    CASE strategy \in {"vanilla", "flask"} ->
            {i \in 1..Len(items) :
                /\ items[i].kind = "call" /\ items[i].form = "Attribute"
                /\ items[i].name = "route" /\ V2FuncDef(items, i) # 0}
      [] strategy = "fastapi" ->
            {i \in 1..Len(items) :
                /\ items[i].kind = "call" /\ items[i].form = "Name"
                /\ items[i].name \in {"get", "post", "put", "delete"}
                /\ V2FuncDef(items, i) # 0}
      [] strategy = "express" ->
            {i \in 1..Len(items) :
                /\ items[i].kind = "route" /\ items[i].recv \in {"app", "router"}
                /\ items[i].verb \in {"get", "post", "put", "delete"}}

\* The /* */ comment block nearest before a line; NoDoc without one.
NearestComment(items, lineno) ==
    LET before == {j \in 1..(lineno - 1) : items[j].kind = "comment"}
    IN IF before = {} THEN NoDoc
       ELSE items[CHOOSE j \in before : \A k \in before : k <= j].doc

\* The docstring of the handler of a route declaration.
HandlerDoc(strategy, items, lineno) ==
    IF strategy = "express" THEN NearestComment(items, lineno)
    ELSE items[V2FuncDef(items, lineno)].doc

\* The path and methods written in a route declaration.
DeclaredPath(strategy, items, lineno) ==
    IF strategy = "express" THEN items[lineno].path
    ELSE IF items[lineno].args # <<>> THEN items[lineno].args[1] ELSE <<>>

DeclaredMethods(strategy, items, lineno) ==
    IF strategy = "express" THEN {Lower(items[lineno].verb)}
    ELSE IF \E k \in 1..Len(items[lineno].keywords) : items[lineno].keywords[k][1] = "methods"
    THEN LET k == CHOOSE k \in 1..Len(items[lineno].keywords) :
                     items[lineno].keywords[k][1] = "methods"
         IN {Lower(items[lineno].keywords[k][2][n]) :
                n \in 1..Len(items[lineno].keywords[k][2])}
    ELSE IF strategy = "fastapi" THEN {Lower(items[lineno].name)}
    ELSE {"get"}

\* C19: v2, every strategy: detection does not raise, and a route
\* declaration whose handler has no docstring-declared Endpoint is among the
\* endpoints returned, with the path and methods of the declaration and, in
\* the Python strategies, the summary "Endpoint for <function name>".
C19_UndocumentedRouteEmitted ==
    (oa_input.version = "v2"
        /\ oa_file.strategy \in {"vanilla", "flask", "fastapi", "express"}) =>
       LET strategy == oa_file.strategy
           items == OaSource(oa_file.path).items
       IN /\ oa_file.error = ""
          /\ \A r \in RouteDeclarations(strategy, items) :
                parse_docstring(HandlerDoc(strategy, items, r)) = NoEndpoint =>
                   \E i \in 1..Len(oa_file.endpoints) :
                      /\ oa_file.endpoints[i].anchor = r
                      /\ oa_file.endpoints[i].path = DeclaredPath(strategy, items, r)
                      /\ OaKeys(oa_file.endpoints[i]) = DeclaredMethods(strategy, items, r)
                      /\ strategy # "express" =>
                            oa_file.endpoints[i].summary
                               = "Endpoint for " \o items[V2FuncDef(items, r)].name

\* C20: v2, Express: the endpoint of a route match is built from the comment
\* block nearest before it.
C20_NearestPrecedingComment ==
    (V2Detected /\ oa_file.strategy = "express") =>
       LET items == OaSource(oa_file.path).items
       IN \A r \in RouteDeclarations("express", items) :
             parse_docstring(NearestComment(items, r)) # NoEndpoint =>
                \E i \in 1..Len(oa_file.endpoints) :
                   oa_file.endpoints[i]
                      = [parse_docstring(NearestComment(items, r)) EXCEPT !.anchor = r]

\* C22: v2, the operations of an endpoint of a file of the group api_key
\* have security = [{"ApiKeyAuth": []}], those of the group cognito
\* [{"CognitoAuth": []}], those of a group with another label no security
\* key; the document written declares ApiKeyAuth and CognitoAuth under
\* components.securitySchemes.
C22_SecurityByGroup ==
    /\ (oa_input.version = "v2" /\ OaEmitted) =>
          \A m \in OaKeys(oa_last) :
             LET operation == OperationAt(oa_spec, Text(oa_last.path), m)
             IN /\ HasOperation(oa_spec, Text(oa_last.path), m)
                /\ oa_file.auth = "api_key" =>
                      /\ "security" \in DOMAIN operation
                      /\ operation.security = <<<<<<"ApiKeyAuth", <<>>>>>>>>
                /\ oa_file.auth = "cognito" =>
                      /\ "security" \in DOMAIN operation
                      /\ operation.security = <<<<<<"CognitoAuth", <<>>>>>>>>
                /\ oa_file.auth \notin {"api_key", "cognito"} =>
                      "security" \notin DOMAIN operation
    /\ (oa_input.version = "v2" /\ oa_pc = "done") =>
          /\ oa_out # NoFile
          /\ DictKeys(oa_out[1].components.securitySchemes) = {"ApiKeyAuth", "CognitoAuth"}

\* A document was written whose last endpoint came from a group with another
\* label, after endpoints with security.
C22_Witness ==
    /\ oa_input.version = "v2"
    /\ oa_pc = "done"
    /\ OaEmitted
    /\ oa_file.auth \notin {"api_key", "cognito"}
    /\ \E i \in 1..Len(oa_spec) :
          \E m \in DictKeys(oa_spec[i][2]) :
             "security" \notin DOMAIN OperationAt(oa_spec, oa_spec[i][1], m)


\* C23: v2, the strategy chosen for a file is FastAPI for a .py file whose
\* text contains fastapi in any case, else Flask for a .py file containing
\* flask, else Vanilla for a .py file; Express for a .ts or .js file; none
\* for any other extension, and such a file gives no endpoint.
C23_StrategyDispatch ==
    (oa_input.version = "v2" /\ oa_file.strategy # "") =>
       LET file == OaSource(oa_file.path)
           has(name) == \E word \in file.mentions : Lower(word) = name
       IN /\ oa_file.strategy = "fastapi" <=> (file.ext = ".py" /\ has("fastapi"))
          /\ oa_file.strategy = "flask" <=>
                (file.ext = ".py" /\ ~has("fastapi") /\ has("flask"))
          /\ oa_file.strategy = "vanilla" <=>
                (file.ext = ".py" /\ ~has("fastapi") /\ ~has("flask"))
          /\ oa_file.strategy = "express" <=> file.ext \in {".ts", ".js"}
          /\ oa_file.strategy = "none" <=> file.ext \notin {".py", ".ts", ".js"}
          /\ oa_file.strategy = "none" => (oa_file.endpoints = <<>> /\ oa_todo = <<>>)

\* A .py file that contains both FastAPI and flask got the FastAPI strategy.
C23_Witness ==
    /\ oa_input.version = "v2"
    /\ oa_file.strategy = "fastapi"
    /\ OaSource(oa_file.path).mentions = {"flask", "FastAPI"}

(***************************************************************************)
(* The parsers of the OpenAPI generators, called on their own.             *)
(***************************************************************************)
\* The longest generated path, in pieces.
MaxPath == 4

FnCall(op, arg) == [op |-> op, arg |-> arg]

\* Paths: every sequence of up to MaxPath pieces, and some longer ones.
PathPieces == {"/u/", "{", "}", "<", ">", "id"}
GeneratedPaths == UNION {[1..n -> PathPieces] : n \in 0..MaxPath}
LongPaths ==
    {<<"/users/", "{", "id", "}", "/posts/", "<", "post_id", ">">>,
     <<"/a/", "{", "id", "}", "/b/", "{", "id", "}">>,
     <<"/a/", "<", "id", ">", "/", "{", "user", " ", "id", "}">>,
     <<"/a/", "{", "id", ">", "/b/", "<", "post_id", "}">>}

\* A parameter as the Parameters: section of a docstring declares it.
DeclaredParameter(name, description) ==
    [name |-> name, in |-> "query", description |-> description, required |-> FALSE,
     schema |-> [type |-> "string"]]

DeclaredLists ==
    {<<>>,
     <<DeclaredParameter("id", "The id")>>,
     <<DeclaredParameter("post_id", "Post"), DeclaredParameter("limit", "Page size")>>,
     <<DeclaredParameter("id", "First"), DeclaredParameter("id", "Second")>>}

\* The EndpointInfo parse_docstring hands to enhance_parameters.
EndpointInfos ==
    {[DocstringStart.info EXCEPT !.path = p, !.methods = <<"GET">>, !.parameters = d] :
        p \in (GeneratedPaths \cup LongPaths) \ {<<>>}, d \in DeclaredLists}

\* Docstrings of v1 route functions: up to MaxDocLines lines, each field
\* with two spellings and two values.
MaxDocLines == 3
V1DocLines ==
    {<<"Summary", ":", " ", "List users">>, <<"summary", ":", "Old list">>,
     <<"Method", ":", " ", "GET">>, <<"METHOD", ":", " ", "POST">>,
     <<"Description", ":", " ", "Lists the users">>, <<"description", ":", " ", "More">>,
     <<"Returns the users">>}
V1Docstrings == UNION {[1..n -> V1DocLines] : n \in 0..MaxDocLines}

\* Python files of up to MaxItems statements: a route call, functions at
\* the top level and a method of a class.
MaxItems == 3
PyStatements ==
    {PyCall("Attribute", "route", <<<<"/users">>>>, <<<<"methods", <<"GET">>>>>>, FALSE),
     PyDef("health", NoDoc, FALSE),
     PyDef("version", NoDoc, FALSE),
     PyDef("list_users", NoDoc, TRUE)}
PyFiles == UNION {[1..n -> PyStatements] : n \in 0..MaxItems}

\* Docstrings of v2 with a Response: section of up to MaxResponseLines lines.
MaxResponseLines == 3
ResponseLines ==
    {<<"{">>,
     <<"}">>,
     <<"{", "status", ":", " ", Quoted("open"), "}">>,
     <<"id", ":", " ", "7", ",">>,
     <<"status", ":", " ", Quoted("open")>>,
     <<"status", ":", " ", "open">>,
     <<"{", "id", ":", " ", "7", ",">>,
     <<"status", ":", " ", Quoted("open"), "}">>}
ResponseBodies == UNION {[1..n -> ResponseLines] : n \in 0..MaxResponseLines}
ResponseDocstrings ==
    {<<<<"Endpoint", ":", " ", "/orders">>, <<"Response", ":">>>> \o body :
        body \in ResponseBodies}

\* Manifests of up to MaxManifestLines lines: headers of two labels,
\* paths and blank lines.
MaxManifestLines == 4
ManifestLineSet ==
    {<<"--auth:", " ", "api_key">>, <<"--auth:", "cognito">>,
     <<"users.py">>, <<" ", "orders.py">>, <<>>}
GeneratedManifests == UNION {[1..n -> ManifestLineSet] : n \in 0..MaxManifestLines}

FnCalls ==
    {FnCall("enhance_parameters", e) : e \in EndpointInfos}
    \cup {FnCall("parse_input_file", m) : m \in GeneratedManifests}
    \cup {FnCall("parse_docstring", d) : d \in ResponseDocstrings}
    \cup {FnCall("_parse_docstring_specification", d) : d \in V1Docstrings}
    \cup {FnCall("generate_specification", f) : f \in PyFiles}
    \cup {FnCall("detect_endpoints", f) : f \in PyFiles}

FnInit ==
    /\ fn_pc = "call"
    /\ fn_call \in FnCalls
    /\ fn_result = None

\* ParameterParser.enhance_parameters(endpoint_info)
EnhanceParameters ==
    /\ fn_pc = "call"
    /\ fn_call.op = "enhance_parameters"
    /\ fn_result' = enhance_parameters(fn_call.arg)
    /\ fn_pc' = "return"
    /\ UNCHANGED fn_call
    /\ UNCHANGED <<tokenVars, cliVars, jsVars, oaVars>>

\* v1 OpenAPISpecGenerator._parse_docstring_specification(docstring)
ParseDocstringSpecification ==
    /\ fn_pc = "call"
    /\ fn_call.op = "_parse_docstring_specification"
    /\ fn_result' = _parse_docstring_specification(fn_call.arg)
    /\ fn_pc' = "return"
    /\ UNCHANGED fn_call
    /\ UNCHANGED <<tokenVars, cliVars, jsVars, oaVars>>

\* The walk of v1 generate_specification over one file.
GenerateSpecification ==
    /\ fn_pc = "call"
    /\ fn_call.op = "generate_specification"
    /\ fn_result' = V1Routes(fn_call.arg, RouteCalls(fn_call.arg))
    /\ fn_pc' = "return"
    /\ UNCHANGED fn_call
    /\ UNCHANGED <<tokenVars, cliVars, jsVars, oaVars>>

\* v2 PythonVanillaDetector.detect_endpoints(file_content)
DetectEndpoints ==
    /\ fn_pc = "call"
    /\ fn_call.op = "detect_endpoints"
    /\ fn_result' = detect_endpoints("vanilla", fn_call.arg).endpoints
    /\ fn_pc' = "return"
    /\ UNCHANGED fn_call
    /\ UNCHANGED <<tokenVars, cliVars, jsVars, oaVars>>

\* v2 DocstringParser.parse_docstring(docstring)
ParseDocstring ==
    /\ fn_pc = "call"
    /\ fn_call.op = "parse_docstring"
    /\ fn_result' = parse_docstring(fn_call.arg)
    /\ fn_pc' = "return"
    /\ UNCHANGED fn_call
    /\ UNCHANGED <<tokenVars, cliVars, jsVars, oaVars>>

\* v2 parse_input_file(input_file)
ParseInputFile ==
    /\ fn_pc = "call"
    /\ fn_call.op = "parse_input_file"
    /\ fn_result' = parse_input_file(fn_call.arg)
    /\ fn_pc' = "return"
    /\ UNCHANGED fn_call
    /\ UNCHANGED <<tokenVars, cliVars, jsVars, oaVars>>

FnNext ==
    \/ EnhanceParameters
    \/ ParseInputFile
    \/ ParseDocstring
    \/ ParseDocstringSpecification
    \/ GenerateSpecification
    \/ DetectEndpoints

\* A parser is called; the service and the tools are not started.
InitParsers == FnInit /\ TokenIdle /\ CliIdle /\ JsIdle /\ OaIdle

SpecParsers == InitParsers /\ [][FnNext]_vars

(***************************************************************************)
(* The parsers: properties.                                                *)
(***************************************************************************)
FnReturned(op) == fn_pc = "return" /\ fn_call.op = op

\* The names of the {name} and <name> tokens of a path: the text between an
\* opening bracket and the closing bracket of its kind, without brackets.
PathTokens(path) ==
    {Text(SubSeq(path, i + 1, j - 1)) :
        <<i, j>> \in {ij \in (1..Len(path)) \X (1..Len(path)) :
                        /\ ij[1] + 1 < ij[2]
                        /\ \/ path[ij[1]] = "{" /\ path[ij[2]] = "}"
                           \/ path[ij[1]] = "<" /\ path[ij[2]] = ">"
                        /\ \A k \in (ij[1] + 1)..(ij[2] - 1) :
                              path[k] \notin {"{", "}", "<", ">"}}}

\* The brackets of the path pair up: every opening one is closed by one of
\* its kind after a name without brackets, and every closing one closes so.
Brackets == {"{", "}", "<", ">"}
Encloses(path, i, j) ==
    /\ i + 1 < j
    /\ \/ path[i] = "{" /\ path[j] = "}"
       \/ path[i] = "<" /\ path[j] = ">"
    /\ \A k \in (i + 1)..(j - 1) : path[k] \notin Brackets
WellBracketed(path) ==
    \A i \in 1..Len(path) :
       /\ path[i] \in {"{", "<"} => \E j \in 1..Len(path) : Encloses(path, i, j)
       /\ path[i] \in {"}", ">"} => \E k \in 1..Len(path) : Encloses(path, k, i)

\* How many parameters of a list have the name.
Named(parameters, name) == Cardinality({i \in 1..Len(parameters) : parameters[i].name = name})

\* C21: v2, enhance_parameters keeps the declared parameters unchanged at the
\* head of the list; every parameter it adds is {in: path, required: true,
\* schema.type: string} and its name then occurs once in the list (it was
\* not declared and is not added twice); and for every {name} or <name>
\* token of a path whose brackets pair up, a parameter of that name is in
\* the list, the declared one when there is one.
C21_PathParametersAddedOnce ==
    FnReturned("enhance_parameters") =>
        LET declared == fn_call.arg.parameters
            result == fn_result.parameters
        IN /\ Len(result) >= Len(declared)
           /\ SubSeq(result, 1, Len(declared)) = declared
           /\ \A i \in (Len(declared) + 1)..Len(result) :
                 /\ result[i]["in"] = "path"
                 /\ result[i].required = TRUE
                 /\ result[i].schema.type = "string"
                 /\ Named(result, result[i].name) = 1
           /\ WellBracketed(fn_call.arg.path) =>
                 /\ \A name \in PathTokens(fn_call.arg.path) : Named(result, name) >= 1
                 /\ \A i \in (Len(declared) + 1)..Len(result) :
                       result[i].name \in PathTokens(fn_call.arg.path)

\* /users/{id}/posts/<post_id> with post_id declared: id is added, post_id
\* is not.
C21_Witness ==
    /\ FnReturned("enhance_parameters")
    /\ WellBracketed(fn_call.arg.path)
    /\ PathTokens(fn_call.arg.path) = {"id", "post_id"}
    /\ Named(fn_call.arg.parameters, "post_id") = 1
    /\ Named(fn_call.arg.parameters, "id") = 0
    /\ Len(fn_result.parameters) = Len(fn_call.arg.parameters) + 1

(***************************************************************************)
(* Runs that are repeated.  One program runs at a time: the service, or    *)
(* one of the tools, which may be started again once it has ended.         *)
(***************************************************************************)
InitReruns == InitToken \/ InitCli \/ InitJs \/ InitOpenapi

RerunsNext ==
    \/ (cli_pc = "off" /\ js_pc = "off" /\ oa_pc = "off" /\ TokenNext)
    \/ CliNext
    \/ JsNext
    \/ JsAgain
    \/ OaNext
    \/ OaAgain

SpecReruns == InitReruns /\ [][RerunsNext]_vars

\* The module names that one file of the tree alone gives.
SingleSource(tree) ==
    {ModuleName(f) : f \in {g \in Glob(tree) :
                               \A h \in Glob(tree) : ModuleName(h) = ModuleName(g) => h = g}}

\* A second run of an OpenAPI generator leaves the document of the first.
C24_Openapi ==
    oa_pc = "done" /\ oa_before \notin {NoFile, OaPriorFile} => oa_out = oa_before

\* A second run of the JavaScript generator leaves the same pages; glob's
\* order decides between two files of one module name.
C24_Js ==
    js_pc = "done" /\ js_before # <<>>
    => /\ DOMAIN js_out = DOMAIN js_before
       /\ \A n \in SingleSource(js_tree) : js_out[n] = js_before[n]
       /\ \A n \in DOMAIN js_out :
             \E f \in Glob(js_tree) :
                /\ ModuleName(f) = n
                /\ js_out[n] = RstContent(n, extract_functions_from_js(js_tree[f]))

\* The page of the CLI is the same whatever the run finds outside and
\* whatever the file held.
C24_Cli ==
    cli_pc = "done" /\ cli_args.auth_type \in {"API_KEY", "OPENID_CONNECT"}
    => \A ambient \in BOOLEAN, http \in {"none", "200", "403", "ConnectionError"} :
          LET h == generate_headers(cli_args.auth_type, CliEnv(ambient, "none", http), cli_args)
          IN /\ ~h.raised
             /\ cli_graphql_rst = CliGraphqlRst(cli_args.endpoint, h.headers)

\* The pages of the service are those of the request whose handler wrote last.
C24_Token ==
    \A r \in Reqs :
       /\ pc[r] \in {"write_apidoc", "write_index", "rm_build", "sphinx_build", "return"}
          => graphql_rst = GraphqlRst(req[r].gql_endpoint, RstHeaders(req[r], tok[r].auth_header))
       /\ pc[r] \in {"write_index", "rm_build", "sphinx_build", "return"}
          => apidoc_rst = ApidocRst(req[r].spec_endpoint, RstHeaders(req[r], tok[r].auth_header))
       /\ pc[r] \in {"rm_build", "sphinx_build", "return"} => index_rst = IndexRst

V1Matching(docstring, field) ==
    Ascending({i \in 1..Len(docstring) : V1Match(Strip(docstring[i]), field) # <<>>})

\* C25: in the v1 docstring parser, when several lines match the same field
\* of Summary, Method and Description, the value of the first matching line
\* is the one used and the later ones are ignored.
C25_FirstMatchWins ==
    FnReturned("_parse_docstring_specification")
    => \A field \in {"summary", "method", "description"} :
          LET matching == V1Matching(fn_call.arg, field)
          IN matching # <<>>
             => fn_result[field] = Text(V1Match(Strip(fn_call.arg[matching[1]]), field))

\* The function definitions of a file after a line, at any nesting depth.
DefsAfter(items, lineno) == {j \in 1..Len(items) : items[j].kind = "def" /\ j > lineno}

\* The name of the function an endpoint of a route call was built from.
PairedName(op, entry, items) ==
    IF op = "generate_specification" THEN items[entry.func].name
    ELSE IF entry.summary = "Endpoint for health" THEN "health"
    ELSE IF entry.summary = "Endpoint for version" THEN "version"
    ELSE IF entry.summary = "Endpoint for list_users" THEN "list_users"
    ELSE None

C26_Paired(op) ==
    FnReturned(op)
    => \A i \in 1..Len(fn_call.arg) :
          fn_call.arg[i].kind = "call"
          => LET later == DefsAfter(fn_call.arg, i)
                 entries == {k \in 1..Len(fn_result) : fn_result[k].anchor = i}
             IN IF later = {}
                THEN entries = {}
                ELSE /\ entries # {}
                     /\ \A k \in entries :
                           PairedName(op, fn_result[k], fn_call.arg)
                              = fn_call.arg[Ascending(later)[1]].name

\* C26: in both generators a route call is paired with the function
\* definition of the smallest line number after the call's line, at any
\* nesting depth, and yields no endpoint only when no function definition
\* follows it.
C26_NextFunctionDefinition ==
    C26_Paired("generate_specification") /\ C26_Paired("detect_endpoints")

\* The lines of a docstring after its Response: header.
ResponseBody(docstring) ==
    SubSeq(docstring, IndexOf(docstring, <<"Response", ":">>) + 1, Len(docstring))

\* The lines from the first one that begins with "{" up to and including
\* the first one from there on that ends with "}"; <<>> when there is none.
ResponseBlock(body) ==
    LET opening == {i \in 1..Len(body) : body[i][1] = "{"}
        first == Ascending(opening)[1]
        closing == {j \in 1..Len(body) : j >= first /\ body[j][Len(body[j])] = "}"}
    IN IF opening = {} THEN <<>>
       ELSE IF closing = {} THEN <<>>
       ELSE SubSeq(body, first, Ascending(closing)[1])

\* C27: the v2 docstring parser joins the lines of the Response: section
\* from the first line beginning with "{" up to and including the first
\* line ending with "}" (possibly the same line), quotes the keys and
\* parses the text as JSON: the properties of the response schema are the
\* top-level keys, typed string, with str(value) as description; a text
\* that does not parse leaves the default schema and raises no error.
C27_ResponseBlockParsed ==
    FnReturned("parse_docstring")
    => LET block == ResponseBlock(ResponseBody(fn_call.arg))
           loaded == JsonLoads(QuoteKeys(JoinLines(block)))
       IN /\ fn_result # NoEndpoint
          /\ fn_result.response_schema =
                IF block # <<>> /\ loaded.ok
                THEN [type |-> "object",
                      properties |-> ResponseProperties(EmptyDict, loaded.items)]
                ELSE EmptySchema

\* A docstring has a line of the given field.
DocDeclares(docstring, field) ==
    \E i \in 1..Len(docstring) :
       LET line == Strip(docstring[i])
       IN Len(line) >= 2 /\ Lower(line[1]) = field /\ line[2] = ":"

\* C28: v2, Vanilla and Flask: an endpoint of a route whose handler's
\* docstring declares an Endpoint: path but no Method: line has the methods
\* of the route declaration, so a route declared with methods=["POST"]
\* gives a post operation and not a get operation.
C28_MethodsFromRoute ==
    V2Detected /\ oa_file.strategy \in {"vanilla", "flask"}
    => LET items == OaSource(oa_file.path).items
       IN \A k \in 1..Len(oa_file.endpoints) :
             LET endpoint == oa_file.endpoints[k]
             IN endpoint.anchor # 0
                => LET doc == HandlerDoc(oa_file.strategy, items, endpoint.anchor)
                   IN DocDeclares(doc, "endpoint") /\ ~DocDeclares(doc, "method")
                      => OaKeys(endpoint)
                            = DeclaredMethods(oa_file.strategy, items, endpoint.anchor)

\* The request lacks a field of its scheme, or the signer, the identity
\* provider or the Lambda authorizer did not give a token.
NoHeaderObtained(r) ==
    \/ \E f \in RequiredFields(req[r].auth_type) : req[r][f] \in {None, "", "{}"}
    \/ ~ext[r].ok
    \/ Rejected(r)
    \/ req[r].auth_type = "LAMBDA" /\ ext[r].context_kind = "other"

C29_NothingRegenerated ==
    \A r \in Reqs :
        (Responded(r) /\ NoHeaderObtained(r))
        => /\ resp[r].status # 200
           /\ steps[r] = <<>>

\* A step that changes a page or the build directory is a regeneration
\* step of a handler that holds its authorization header.
C29_Step ==
    <<graphql_rst, apidoc_rst, index_rst, build_dir>>'
        # <<graphql_rst, apidoc_rst, index_rst, build_dir>>
    => \E r \in Reqs :
          /\ pc[r] \in {"write_graphql", "write_apidoc", "write_index", "rm_build",
                        "sphinx_build"}
          /\ tok[r] # NoTok
          /\ ~NoHeaderObtained(r)
          /\ Len(steps'[r]) = Len(steps[r]) + 1
          /\ \A o \in Reqs \ {r} : steps'[o] = steps[o]

\* C29: a request of the token service that ends in an error response for
\* a missing required field or for a failure while obtaining the token
\* from the signer, the identity provider or the Lambda authorizer leaves
\* graphql.rst, apidoc.rst, index.rst and the build directory unchanged and
\* never invokes the builder: regeneration starts only after the
\* authorization header has been obtained.
C29_ErrorLeavesDocsUntouched == []C29_NothingRegenerated /\ [][C29_Step]_vars

\* A request failed at the identity provider after an earlier request had
\* regenerated the pages, which are still those of the earlier request.
C29_Witness ==
    \E r \in Reqs :
        /\ Responded(r)
        /\ ~ext[r].ok
        /\ steps[r] = <<>>
        /\ graphql_rst # PriorFile
        /\ build_dir.state = "html"

\* The lines of a manifest that are headers, and those that list a path.
HeaderLines(lines) ==
    {i \in 1..Len(lines) : StartsWith(Strip(lines[i]), <<"--auth:">>)}
PathLines(lines) ==
    {i \in 1..Len(lines) : Strip(lines[i]) # <<>> /\ i \notin HeaderLines(lines)}

\* The label of a header line.
HeaderLabel(lines, i) == Text(Strip(Tail(Strip(lines[i]))))

\* The label of the most recent header before a line; None without one.
GroupOf(lines, i) ==
    LET before == {h \in HeaderLines(lines) : h < i}
    IN IF before = {} THEN None
       ELSE HeaderLabel(lines, CHOOSE h \in before : \A k \in before : k <= h)

\* The paths listed under the headers of a label, in manifest order.
ListedUnder(lines, label) ==
    LET at == Ascending({i \in PathLines(lines) : GroupOf(lines, i) = label})
    IN [k \in 1..Len(at) |-> Text(Strip(lines[at[k]]))]

\* C30: the v2 manifest parser puts every non-blank line that is no header
\* and follows some header into the group of the most recent header before
\* it, once and in manifest order, also when a label occurs in more than
\* one header; no listed path is lost, and the lines before the first
\* header belong to no group.
C30_EveryPathGrouped ==
    FnReturned("parse_input_file")
    => /\ DictKeys(fn_result)
             = {HeaderLabel(fn_call.arg, h) : h \in HeaderLines(fn_call.arg)}
       /\ \A label \in DictKeys(fn_result) :
             DictGet(fn_result, label, <<>>) = ListedUnder(fn_call.arg, label)

====
